---------------------------- MODULE Spec2Model ----------------------------
(***************************************************************************)
(* Verification model of the SMTP server core:                             *)
(*   - DANE TLSA matching            (src/outbound/dane/verify.rs)         *)
(*   - queue throttles and cleanup   (src/queue/throttle.rs,               *)
(*                                    src/core/worker.rs)                  *)
(*   - the inbound SMTP session      (src/listener/session.rs,             *)
(*                                    src/inbound/rcpt.rs)                 *)
(*   - the outbound queue            (src/queue/mod.rs)                    *)
(* Each subsystem has its own variables, Init, actions and specification.  *)
(***************************************************************************)
EXTENDS Integers, Sequences, FiniteSets, TLC

VARIABLES
    \* ---- DANE (Tlsa::verify) ----
    dane_tlsa,      \* the Tlsa value verify is called on
    dane_certs,     \* Option<&[Certificate]>: [some, chain]
    dane_result     \* "pending" before the call, then verify's return value

VARIABLES
    \* ---- throttles (QueueCore::is_allowed, Core::cleanup) ----
    thr_cfg,        \* the Throttle: its optional concurrency and rate
    thr_now,        \* Instant::now(), in ticks
    thr_entry,      \* self.throttle: key -> Limiter entry (or vacant)
    thr_gens,       \* key -> number of Limiter entries created so far
    thr_counter,    \* key -> limiter number -> its shared atomic `concurrent`
    thr_permits,    \* key -> limiter number -> InFlight values held by callers
    thr_grants,     \* key -> tick -> calls admitted by a rate throttle then
    thr_result      \* the last is_allowed call: key, matched, outcome

VARIABLES
    \* ---- inbound session (Session::ingest) ----
    session,        \* the Session: state, stream.tls, params and data fields
    s_out,          \* what the last ingest call wrote: command, code, effects
    s_spool,        \* number of messages persisted and handed to the queue
    s_ret,          \* the last ingest call's return value
    s_tx            \* history: which commands of the transaction got a 250

VARIABLES
    \* ---- queue (manager, delivery attempts, spool) ----
    q_now,          \* Instant::now(), in ticks
    q_chan,         \* the manager's channel: events sent, not yet received
    q_scheduled,    \* the heap of Schedule<Box<Message>>
    q_on_hold,      \* the on-hold list
    q_active,       \* message id -> the step its DeliveryAttempt is at
    q_rcpt,         \* message id -> its recipient, in memory
    q_spool,        \* message id -> its file on the spool
    q_dsn,          \* message id -> DSNs queued for its recipient
    q_concurrent,   \* the throttle's ConcurrencyLimiter.concurrent
    q_permits,      \* the attempts holding an InFlight of it
    q_count         \* messages admitted, temporary failures, reloads

VARIABLES
    \* ---- a Domain of a message under delivery (set_throttle_error) ----
    dom,            \* the Domain
    dom_on_hold,    \* the attempt's on_hold: Vec<ConcurrencyLimiter>
    dom_call        \* the last set_throttle_error call: its error, and the
                    \* Domain and on_hold it was given

VARIABLES
    \* ---- the manager's heap of Schedule values (impl Ord for Schedule) ----
    heap_data,      \* BinaryHeap.data: the heap's array
    heap_pop        \* the last pop: what it returned, what the heap held

VARIABLES
    \* ---- a quota limiter (QuotaLimiter, UsedQuota) ----
    quota_size,     \* QuotaLimiter.size
    quota_messages, \* QuotaLimiter.messages
    quota_pc        \* message -> where its acquisition or its drop stands

VARIABLES
    \* ---- MX records to remote hosts (ToRemoteHost::to_remote_hosts) ----
    mx_list,        \* the Vec<MX> to_remote_hosts is called on
    mx_max,         \* max_mx
    mx_hosts        \* "pending" before the call, then what to_remote_hosts returned

VARIABLES
    \* ---- Instants saved as UNIX timestamps (instant_to_timestamp, to_instant) ----
    ts_clock,       \* the monotonic clock (Instant::now()), in ticks
    ts_wall,        \* SystemTime::now() minus Instant::now(), in ticks
    ts_time,        \* the Instant that is saved
    ts_saved,       \* Instant::now() at the save, -1 before it
    ts_stamp,       \* the UNIX timestamp written, -1 before the save
    ts_back,        \* the Instant read back, -1 before the load
    ts_loaded       \* Instant::now() at the load, -1 before it

VARIABLES
    \* ---- DKIM failure reports (Session::send_dkim_report) ----
    rp_rate,        \* rate.requests of report.dkim.send
    rp_now,         \* the clock, in ticks
    rp_bucket,      \* the token bucket of each (recipient, report kind)
    rp_queued,      \* the report messages queued, each with its recipient and time
    rp_last         \* the last call of send_dkim_report: recipient, DKIM output, whether the bucket admitted it

VARIABLES
    \* ---- Report management (ReportRequest: List, Status, Cancel) ----
    mg_scheduled,   \* the reports that were scheduled
    mg_reports,     \* the reports the scheduler holds, by ReportKey
    mg_cancelled,   \* the reports cancelled so far
    mg_last         \* the last management request and its response

VARIABLES
    \* ---- Duration values of the configuration (ParseValue for Duration) ----
    du_value,       \* the configuration value, character by character
    du_result       \* what parse_value returned for it

VARIABLES
    \* ---- remote lookups (RemoteHost::run) ----
    lk_max,         \* max_concurrent
    lk_chan,        \* the events sent to run and not received yet
    lk_status,      \* where each lookup is
    lk_answer,      \* what the caller of each lookup was answered
    lk_active,      \* active_lookups
    lk_cache,       \* the lookup cache
    lk_queue,       \* the pending queue
    lk_stopped      \* run has left its loop

VARIABLES
    \* ---- management HTTP requests ----
    hp_lookup,      \* the management lookup
    hp_req,         \* the last request
    hp_call,        \* the lookup made for it
    hp_status,      \* the status answered
    hp_sent,        \* the event it sent
    hp_messages,    \* messages in the queue
    hp_reports,     \* reports scheduled
    hp_open         \* the managers take events

VARIABLES
    \* ---- MTA-STS policy lookups ----
    sts_record,     \* id of the TXT record of the domain
    sts_cache,      \* the cached policy of the domain
    sts_pc,         \* where each call is
    sts_rec,        \* the record id each call got
    sts_fetched,    \* the call requested the policy file
    sts_ret         \* what each call returned

daneVars == <<dane_tlsa, dane_certs, dane_result>>
thrVars == <<thr_cfg, thr_now, thr_entry, thr_gens, thr_counter, thr_permits,
             thr_grants, thr_result>>

sessVars == <<session, s_out, s_spool, s_ret, s_tx>>

queueVars == <<q_now, q_chan, q_scheduled, q_on_hold, q_active, q_rcpt,
               q_spool, q_dsn, q_concurrent, q_permits, q_count>>

domVars == <<dom, dom_on_hold, dom_call>>

heapVars == <<heap_data, heap_pop>>

quotaVars == <<quota_size, quota_messages, quota_pc>>

mxVars == <<mx_list, mx_max, mx_hosts>>

tsVars == <<ts_clock, ts_wall, ts_time, ts_saved, ts_stamp, ts_back, ts_loaded>>

rpVars == <<rp_rate, rp_now, rp_bucket, rp_queued, rp_last>>

mgVars == <<mg_scheduled, mg_reports, mg_cancelled, mg_last>>

duVars == <<du_value, du_result>>

lkVars == <<lk_max, lk_chan, lk_status, lk_answer, lk_active, lk_cache, lk_queue, lk_stopped>>

hpVars == <<hp_lookup, hp_req, hp_call, hp_status, hp_sent, hp_messages, hp_reports, hp_open>>

stsVars == <<sts_record, sts_cache, sts_pc, sts_rec, sts_fetched, sts_ret>>

vars == <<daneVars, thrVars, sessVars, queueVars, domVars, heapVars,
          quotaVars, mxVars, tsVars, rpVars, mgVars, duVars,
          lkVars, hpVars,
          stsVars>>

\* What the actions of one subsystem leave alone.
notDane == <<thrVars, sessVars, queueVars, domVars, heapVars, quotaVars, mxVars, tsVars, rpVars, mgVars, duVars, lkVars, hpVars, stsVars>>
notThr == <<daneVars, sessVars, queueVars, domVars, heapVars, quotaVars, mxVars, tsVars, rpVars, mgVars, duVars, lkVars, hpVars, stsVars>>
notSess == <<daneVars, thrVars, queueVars, domVars, heapVars, quotaVars, mxVars, tsVars, rpVars, mgVars, duVars, lkVars, hpVars, stsVars>>
notQueue == <<daneVars, thrVars, sessVars, domVars, heapVars, quotaVars, mxVars, tsVars, rpVars, mgVars, duVars, lkVars, hpVars, stsVars>>
notDom == <<daneVars, thrVars, sessVars, queueVars, heapVars, quotaVars, mxVars, tsVars, rpVars, mgVars, duVars, lkVars, hpVars, stsVars>>
notHeap == <<daneVars, thrVars, sessVars, queueVars, domVars, quotaVars, mxVars, tsVars, rpVars, mgVars, duVars, lkVars, hpVars, stsVars>>
notQuota == <<daneVars, thrVars, sessVars, queueVars, domVars, heapVars, mxVars, tsVars, rpVars, mgVars, duVars, lkVars, hpVars, stsVars>>
notMx == <<daneVars, thrVars, sessVars, queueVars, domVars, heapVars, quotaVars, tsVars, rpVars, mgVars, duVars, lkVars, hpVars, stsVars>>
notTs == <<daneVars, thrVars, sessVars, queueVars, domVars, heapVars, quotaVars, mxVars, rpVars, mgVars, duVars, lkVars, hpVars, stsVars>>
notRp == <<daneVars, thrVars, sessVars, queueVars, domVars, heapVars, quotaVars, mxVars, tsVars, mgVars, duVars, lkVars, hpVars, stsVars>>
notMg == <<daneVars, thrVars, sessVars, queueVars, domVars, heapVars, quotaVars, mxVars, tsVars, rpVars, duVars, lkVars, hpVars, stsVars>>
notDu == <<daneVars, thrVars, sessVars, queueVars, domVars, heapVars, quotaVars, mxVars, tsVars, rpVars, mgVars, lkVars, hpVars, stsVars>>
notLk == <<daneVars, thrVars, sessVars, queueVars, domVars, heapVars, quotaVars, mxVars, tsVars, rpVars, mgVars, duVars, hpVars, stsVars>>
notHp == <<daneVars, thrVars, sessVars, queueVars, domVars, heapVars, quotaVars, mxVars, tsVars, rpVars, mgVars, duVars, lkVars, stsVars>>
notSts == <<daneVars, thrVars, sessVars, queueVars, domVars, heapVars, quotaVars, mxVars, tsVars, rpVars, mgVars, duVars, lkVars, hpVars>>

(***************************************************************************)
(*                         DANE: Tlsa::verify                              *)
(***************************************************************************)

\* Longest TLSA record list and longest presented chain explored.
MaxEntries == 2
MaxChain == 2

\* Option<&[Certificate]>: None, or Some(chain).
NoCertificates == [some |-> FALSE, chain |-> <<>>]
SomeCertificates(chain) == [some |-> TRUE, chain |-> chain]

\* The certificates a peer may present.  CertA and CertB are two different
\* certificates issued for the same key; CertBad is not valid DER.
CertA == [parses |-> TRUE, der |-> "derA", spki |-> "keyA"]
CertB == [parses |-> TRUE, der |-> "derB", spki |-> "keyA"]
CertBad == [parses |-> FALSE, der |-> "derX", spki |-> "unparsed"]
Certificates == {CertA, CertB, CertBad}

\* Sha256::new().update(x).finalize() / Sha512: collision free, and digests of
\* the two algorithms differ (they do not even have the same length).
Sha256(content) == <<"sha256", content>>
Sha512(content) == <<"sha512", content>>

\* The bytes a record selects from a certificate: public_key().raw or the DER.
SelectedBytes(is_spki, cert) == IF is_spki THEN cert.spki ELSE cert.der

\* The digest verify computes for one record and one (parsed) certificate.
CertHash(record, cert) ==
    IF record.is_sha256
    THEN Sha256(SelectedBytes(record.is_spki, cert))
    ELSE Sha512(SelectedBytes(record.is_spki, cert))

\* A TLSA record published for the certificate `target`.
TlsaEntry(is_end_entity, is_sha256, is_spki, target) ==
    [is_end_entity |-> is_end_entity, is_sha256 |-> is_sha256, is_spki |-> is_spki,
     data |-> IF is_sha256 THEN Sha256(SelectedBytes(is_spki, target))
              ELSE Sha512(SelectedBytes(is_spki, target))]

TlsaEntries ==
    {TlsaEntry(e, h, s, t) : e \in BOOLEAN, h \in BOOLEAN, s \in BOOLEAN,
                              t \in {CertA, CertB}}

SeqsUpTo(S, n) == UNION {[1..k -> S] : k \in 0..n}

\* A Tlsa as the lookup builds it: the two flags say which buckets have records.
Tlsa(entries) ==
    [entries |-> entries,
     has_end_entities |-> \E i \in 1..Len(entries) : entries[i].is_end_entity,
     has_intermediates |-> \E i \in 1..Len(entries) : ~entries[i].is_end_entity]

\* Mutation: a record is tried against every certificate, whatever its bucket.
RecordAppliesAnyBucket(record, pos) == TRUE

\* record.is_end_entity == is_end_entity, where is_end_entity = (pos == 0);
\* positions are 1-based here.
RecordApplies(record, pos) == record.is_end_entity = (pos = 1)

\* Mutation: only the end-entity bucket is tested at the end.
DecideEndEntityOnly(tlsa, st) ==
    IF tlsa.has_end_entities = st.matched_end_entity
    THEN "Ok"
    ELSE "PermanentFailure"

\* The final test of verify.
Decide(tlsa, st) ==
    IF (tlsa.has_end_entities = st.matched_end_entity)
       /\ (tlsa.has_intermediates = st.matched_intermediate)
    THEN "Ok"
    ELSE "PermanentFailure"

\* The inner loop over self.entries, for the certificate at `pos`, from record i.
\* st.stop records `break 'outer`.
RECURSIVE MatchRecords(_, _, _, _, _)
MatchRecords(tlsa, cert, pos, i, st) ==
    IF i > Len(tlsa.entries) THEN st
    ELSE LET record == tlsa.entries[i] IN
         IF RecordApplies(record, pos) /\ CertHash(record, cert) = record.data
         THEN IF pos = 1
              THEN IF ~tlsa.has_intermediates
                   THEN [st EXCEPT !.matched_end_entity = TRUE, !.stop = TRUE]
                   ELSE MatchRecords(tlsa, cert, pos, i + 1,
                                     [st EXCEPT !.matched_end_entity = TRUE])
              ELSE [st EXCEPT !.matched_intermediate = TRUE, !.stop = TRUE]
         ELSE MatchRecords(tlsa, cert, pos, i + 1, st)

\* The outer loop over the presented certificates, from position pos.
RECURSIVE ScanChain(_, _, _, _)
ScanChain(tlsa, certs, pos, st) ==
    IF pos > Len(certs) THEN Decide(tlsa, st)
    ELSE IF ~certs[pos].parses THEN "TemporaryFailure"
    ELSE LET st2 == MatchRecords(tlsa, certs[pos], pos, 1, st) IN
         IF st2.stop THEN Decide(tlsa, st2)
         ELSE ScanChain(tlsa, certs, pos + 1, st2)

\* Tlsa::verify: "Ok", "TemporaryFailure" or "PermanentFailure" (of DaneError).
verify(tlsa, certificates) ==
    IF certificates = NoCertificates THEN "TemporaryFailure"
    ELSE ScanChain(tlsa, certificates.chain, 1,
                   [matched_end_entity |-> FALSE, matched_intermediate |-> FALSE,
                    stop |-> FALSE])

DaneInit ==
    /\ dane_tlsa \in {Tlsa(es) : es \in SeqsUpTo(TlsaEntries, MaxEntries)}
    /\ dane_certs \in {NoCertificates}
                     \cup {SomeCertificates(c) : c \in SeqsUpTo(Certificates, MaxChain)}
    /\ dane_result = "pending"

DaneIdle ==
    /\ dane_tlsa = Tlsa(<<>>)
    /\ dane_certs = NoCertificates
    /\ dane_result = "pending"

\* The delivery worker calls verify after the TLS handshake.
DaneVerify ==
    /\ dane_result = "pending"
    /\ dane_result' = verify(dane_tlsa, dane_certs)
    /\ UNCHANGED <<dane_tlsa, dane_certs>>
    /\ UNCHANGED notDane

NextDane == DaneVerify


\* ---- what the claims speak about ----

\* The presented chain as a sequence (empty when none was presented).
PresentedChain == dane_certs.chain

\* A record's data equals the digest it selects of the certificate.  The SPKI
\* of a certificate that does not parse is not available.
RecordMatchesCert(record, cert) ==
    /\ (record.is_spki => cert.parses)
    /\ record.data = CertHash(record, cert)

\* The bucket (end-entity: TRUE, intermediate: FALSE) has a record matching a
\* certificate of that bucket: the first certificate, or a later one.
BucketMatched(is_end_entity) ==
    \E i \in 1..Len(dane_tlsa.entries) : \E p \in 1..Len(PresentedChain) :
        /\ dane_tlsa.entries[i].is_end_entity = is_end_entity
        /\ (p = 1) = is_end_entity
        /\ RecordMatchesCert(dane_tlsa.entries[i], PresentedChain[p])

BucketDeclared(is_end_entity) ==
    \E i \in 1..Len(dane_tlsa.entries) :
        dane_tlsa.entries[i].is_end_entity = is_end_entity

EveryDeclaredBucketMatched ==
    \A b \in BOOLEAN : BucketDeclared(b) => BucketMatched(b)

AllPresentedParse ==
    /\ dane_certs.some
    /\ \A p \in 1..Len(dane_certs.chain) : dane_certs.chain[p].parses

\* C10 (as stated): for a TLSA set that declares a bucket, verify returns Ok if
\* and only if every declared bucket has a record matching a certificate of
\* that bucket.
C10_OkIffEveryBucketMatched ==
    (dane_result # "pending" /\ dane_tlsa.entries # <<>>) =>
        ((dane_result = "Ok") <=> EveryDeclaredBucketMatched)

\* C10 (amended): when certificates were presented and all of them parse,
\* verify returns Ok if and only if every declared bucket has a record
\* matching a certificate of that bucket.
C10_OkIffEveryBucketMatchedWhenParsed ==
    (dane_result # "pending" /\ AllPresentedParse) =>
        ((dane_result = "Ok") <=> EveryDeclaredBucketMatched)

\* C10 witness: both buckets are declared, a two-certificate chain matches
\* both, and verify has answered Ok.
C10_Witness ==
    /\ dane_result = "Ok"
    /\ BucketDeclared(TRUE) /\ BucketDeclared(FALSE)
    /\ AllPresentedParse /\ Len(dane_certs.chain) = 2
    /\ EveryDeclaredBucketMatched

\* The scan ends at position q: a record of the bucket of the certificate
\* there matches it, and it is an intermediate, or no intermediate records
\* are declared (break 'outer).
SettlesAt(q) ==
    /\ PresentedChain[q].parses
    /\ \E i \in 1..Len(dane_tlsa.entries) :
        /\ dane_tlsa.entries[i].is_end_entity = (q = 1)
        /\ RecordMatchesCert(dane_tlsa.entries[i], PresentedChain[q])
    /\ (q = 1) => ~dane_tlsa.has_intermediates

\* The scan gets to position p: the certificates before it parsed and none
\* of them ended the scan.
ScanReaches(p) ==
    \A q \in 1..(p - 1) : PresentedChain[q].parses /\ ~SettlesAt(q)

\* C11 (as stated): verify returns TemporaryFailure when no certificates
\* were presented or a presented certificate does not parse, and
\* PermanentFailure when all presented certificates parse and a declared
\* bucket has no match; it returns Ok in none of these cases.
C11_FailureKinds ==
    dane_result # "pending" =>
        /\ ~dane_certs.some => dane_result = "TemporaryFailure"
        /\ (\E p \in 1..Len(PresentedChain) : ~PresentedChain[p].parses)
                => dane_result = "TemporaryFailure"
        /\ (AllPresentedParse /\ ~EveryDeclaredBucketMatched)
                => dane_result = "PermanentFailure"

\* C11 (amended): as above, but a certificate that does not parse gives
\* TemporaryFailure only when the scan gets to it; a match that ends the
\* scan earlier decides the result without the later certificates.
C11_FailureKindsOfScannedCertificates ==
    dane_result # "pending" =>
        /\ ~dane_certs.some => dane_result = "TemporaryFailure"
        /\ (\E p \in 1..Len(PresentedChain) :
                ~PresentedChain[p].parses /\ ScanReaches(p))
                => dane_result = "TemporaryFailure"
        /\ (AllPresentedParse /\ ~EveryDeclaredBucketMatched)
                => dane_result = "PermanentFailure"

\* C11 witness: the first certificate matched the end-entity records, the
\* intermediate records made the scan go on, the second certificate did not
\* parse, and verify has answered TemporaryFailure.
C11_Witness ==
    /\ dane_result = "TemporaryFailure"
    /\ BucketDeclared(TRUE) /\ BucketDeclared(FALSE)
    /\ BucketMatched(TRUE)
    /\ Len(PresentedChain) = 2
    /\ ~PresentedChain[2].parses /\ ScanReaches(2)


(***************************************************************************)
(*          Throttles: QueueCore::is_allowed and Core::cleanup             *)
(***************************************************************************)

\* Clock resolution (ticks per rate period), last tick explored, and the
\* number of Limiter entries one key may see created.
TicksPerPeriod == 2
MaxTime == 3
MaxGen == 2

\* The throttle's settings, as configured in the inbound throttle test.
Concurrency == 2
RateRequests == 2

\* The envelope key values (throttle.new_key(envelope)).
ThrottleKeys == {"a", "b"}

None == [some |-> FALSE, v |-> 0]
Some(v) == [some |-> TRUE, v |-> v]

\* Throttle { concurrency, rate }: either may be absent.
Throttles ==
    {[concurrency |-> c, rate |-> r] :
        c \in {None, Some(Concurrency)}, r \in {None, Some(RateRequests)}}
    \ {[concurrency |-> None, rate |-> None]}

\* Token bucket arithmetic in integers: tokens are kept multiplied by
\* TicksPerPeriod, so one tick refills max_requests units and one request
\* costs TicksPerPeriod units.
BucketCapacity(max_requests) == max_requests * TicksPerPeriod
RequestCost == TicksPerPeriod

Min(a, b) == IF a < b THEN a ELSE b

\* Mutation: one permit more than the limit is issued.
ConcurrencyIsAllowedAtLimit(concurrent, max_concurrent) == concurrent <= max_concurrent

\* ConcurrencyLimiter::is_allowed: a permit is issued while concurrent < max.
ConcurrencyIsAllowed(concurrent, max_concurrent) == concurrent < max_concurrent

\* RateLimiter::new: a full bucket, stamped now.
RateLimiterNew(max_requests, now) ==
    [tokens |-> BucketCapacity(max_requests), last |-> now]

\* RateLimiter::is_allowed: refill for the elapsed time, restamp, and deduct
\* one token when there is one.
RateIsAllowed(r, max_requests, now) ==
    LET filled == Min(BucketCapacity(max_requests),
                      r.tokens + (now - r.last) * max_requests)
    IN  IF filled >= RequestCost
        THEN [ok |-> TRUE, tokens |-> filled - RequestCost, last |-> now]
        ELSE [ok |-> FALSE, tokens |-> filled, last |-> now]

\* RateLimiter::elapsed.
RateElapsed(r, now) == now - r.last

Vacant == [present |-> FALSE, gen |-> 0, tokens |-> 0, last |-> 0]

\* Mutation: cleanup forgets the concurrency clause.
CleanupRetainsRateOnly(cfg, e, concurrent, now) ==
    cfg.rate.some /\ RateElapsed(e, now) < TicksPerPeriod

\* Mutation: cleanup forgets the rate clause.
CleanupRetainsConcurrencyOnly(cfg, e, concurrent, now) ==
    cfg.concurrency.some /\ concurrent > 0

\* The predicate of throttle.retain in Core::cleanup: an entry stays while
\* its limiter has permits out or its rate limiter was used within the period.
CleanupRetains(cfg, e, concurrent, now) ==
    \/ (cfg.concurrency.some /\ concurrent > 0)
    \/ (cfg.rate.some /\ RateElapsed(e, now) < TicksPerPeriod)

\* The value of an entry's own counter (0 for an entry without limiter).
EntryConcurrent(k) ==
    IF thr_entry[k].gen = 0 THEN 0 ELSE thr_counter[k][thr_entry[k].gen]

\* All InFlight permits issued for key k that callers still hold.
RECURSIVE SumTo(_, _)
SumTo(f, n) == IF n = 0 THEN 0 ELSE f[n] + SumTo(f, n - 1)
Outstanding(k) == SumTo(thr_permits[k], MaxGen)

ThrInit ==
    /\ thr_cfg \in Throttles
    /\ thr_now = 0
    /\ thr_entry = [k \in ThrottleKeys |-> Vacant]
    /\ thr_gens = [k \in ThrottleKeys |-> 0]
    /\ thr_counter = [k \in ThrottleKeys |-> [g \in 1..MaxGen |-> 0]]
    /\ thr_permits = [k \in ThrottleKeys |-> [g \in 1..MaxGen |-> 0]]
    /\ thr_grants = [k \in ThrottleKeys |-> [t \in 0..MaxTime |-> 0]]
    /\ thr_result = [key |-> "a", matched |-> FALSE, outcome |-> "none"]

ThrIdle ==
    /\ thr_cfg = [concurrency |-> None, rate |-> None]
    /\ thr_now = 0
    /\ thr_entry = [k \in ThrottleKeys |-> Vacant]
    /\ thr_gens = [k \in ThrottleKeys |-> 0]
    /\ thr_counter = [k \in ThrottleKeys |-> [g \in 1..MaxGen |-> 0]]
    /\ thr_permits = [k \in ThrottleKeys |-> [g \in 1..MaxGen |-> 0]]
    /\ thr_grants = [k \in ThrottleKeys |-> [t \in 0..MaxTime |-> 0]]
    /\ thr_result = [key |-> "a", matched |-> FALSE, outcome |-> "none"]

\* A call admitted by a throttle that has a rate is entered in the history.
NoteGrant(k) ==
    IF thr_cfg.rate.some
    THEN thr_grants' = [thr_grants EXCEPT ![k][thr_now] = @ + 1]
    ELSE UNCHANGED thr_grants

\* is_allowed when the throttle's match condition does not hold: Ok, and
\* nothing is touched.
IsAllowedNoMatch(k) ==
    /\ thr_result' = [key |-> k, matched |-> FALSE, outcome |-> "Ok"]
    /\ UNCHANGED <<thr_cfg, thr_now, thr_entry, thr_gens, thr_counter,
                   thr_permits, thr_grants>>
    /\ UNCHANGED notThr

\* Mutation: the rate limiter is asked before the call is refused.
RefusedAfterRate(e, r) == [e EXCEPT !.tokens = r.tokens, !.last = r.last]

\* return Err(Error::Concurrency { .. }): the entry of a call refused for
\* concurrency; the rate limiter was not asked.
RefusedForConcurrency(e, r) == e

\* is_allowed, Entry::Occupied: the concurrency limiter first (the permit is
\* pushed on the caller's in_flight), then the rate limiter.
IsAllowedOccupied(k) ==
    LET e == thr_entry[k]
        concOk == ~thr_cfg.concurrency.some
                  \/ ConcurrencyIsAllowed(thr_counter[k][e.gen], thr_cfg.concurrency.v)
        r == RateIsAllowed(e, thr_cfg.rate.v, thr_now)
    IN
    /\ e.present
    /\ IF ~concOk
       THEN /\ thr_result' = [key |-> k, matched |-> TRUE, outcome |-> "Concurrency"]
            /\ thr_entry' = [thr_entry EXCEPT ![k] = RefusedForConcurrency(e, r)]
            /\ UNCHANGED <<thr_counter, thr_permits, thr_grants>>
       ELSE /\ IF thr_cfg.concurrency.some
               THEN /\ thr_counter' = [thr_counter EXCEPT ![k][e.gen] = @ + 1]
                    /\ thr_permits' = [thr_permits EXCEPT ![k][e.gen] = @ + 1]
               ELSE UNCHANGED <<thr_counter, thr_permits>>
            /\ IF thr_cfg.rate.some
               THEN /\ thr_entry' = [thr_entry EXCEPT ![k].tokens = r.tokens,
                                                      ![k].last = r.last]
                    /\ IF r.ok
                       THEN /\ NoteGrant(k)
                            /\ thr_result' = [key |-> k, matched |-> TRUE,
                                              outcome |-> "Ok"]
                       ELSE /\ UNCHANGED thr_grants
                            /\ thr_result' = [key |-> k, matched |-> TRUE,
                                              outcome |-> "Rate"]
               ELSE /\ UNCHANGED <<thr_entry, thr_grants>>
                    /\ thr_result' = [key |-> k, matched |-> TRUE, outcome |-> "Ok"]
    /\ UNCHANGED <<thr_cfg, thr_now, thr_gens>>
    /\ UNCHANGED notThr

\* is_allowed, Entry::Vacant: new limiters are built, each is asked once (the
\* answers are not looked at), the entry is inserted and Ok is returned.
IsAllowedVacant(k) ==
    LET g == thr_gens[k] + 1
        fresh == RateLimiterNew(thr_cfg.rate.v, thr_now)
        r == RateIsAllowed(fresh, thr_cfg.rate.v, thr_now)
    IN
    /\ ~thr_entry[k].present
    /\ g <= MaxGen
    /\ thr_gens' = [thr_gens EXCEPT ![k] = g]
    /\ IF thr_cfg.concurrency.some /\ ConcurrencyIsAllowed(0, thr_cfg.concurrency.v)
       THEN /\ thr_counter' = [thr_counter EXCEPT ![k][g] = 1]
            /\ thr_permits' = [thr_permits EXCEPT ![k][g] = @ + 1]
       ELSE UNCHANGED <<thr_counter, thr_permits>>
    /\ thr_entry' = [thr_entry EXCEPT ![k] =
            [present |-> TRUE,
             gen |-> IF thr_cfg.concurrency.some THEN g ELSE 0,
             tokens |-> IF thr_cfg.rate.some THEN r.tokens ELSE 0,
             last |-> IF thr_cfg.rate.some THEN r.last ELSE 0]]
    /\ NoteGrant(k)
    /\ thr_result' = [key |-> k, matched |-> TRUE, outcome |-> "Ok"]
    /\ UNCHANGED <<thr_cfg, thr_now>>
    /\ UNCHANGED notThr

\* Mutation: every envelope is looked up under the same key.
IsAllowedOneKey(k) ==
    \/ IsAllowedNoMatch(k)
    \/ IsAllowedOccupied("a")
    \/ IsAllowedVacant("a")

\* QueueCore::is_allowed for an envelope whose key value is k.
IsAllowed(k) ==
    \/ IsAllowedNoMatch(k)
    \/ IsAllowedOccupied(k)
    \/ IsAllowedVacant(k)

\* A caller drops one InFlight permit of limiter g of key k.
DropInFlight(k, g) ==
    /\ thr_permits[k][g] > 0
    /\ thr_permits' = [thr_permits EXCEPT ![k][g] = @ - 1]
    /\ thr_counter' = [thr_counter EXCEPT ![k][g] = @ - 1]
    /\ UNCHANGED <<thr_cfg, thr_now, thr_entry, thr_gens, thr_grants, thr_result>>
    /\ UNCHANGED notThr

\* Core::cleanup on the queue's throttle map.
Cleanup ==
    /\ thr_entry' = [k \in ThrottleKeys |->
            IF thr_entry[k].present
               /\ CleanupRetains(thr_cfg, thr_entry[k], EntryConcurrent(k), thr_now)
            THEN thr_entry[k] ELSE Vacant]
    /\ UNCHANGED <<thr_cfg, thr_now, thr_gens, thr_counter, thr_permits,
                   thr_grants, thr_result>>
    /\ UNCHANGED notThr

\* Time passes.
Tick ==
    /\ thr_now < MaxTime
    /\ thr_now' = thr_now + 1
    /\ UNCHANGED <<thr_cfg, thr_entry, thr_gens, thr_counter, thr_permits,
                   thr_grants, thr_result>>
    /\ UNCHANGED notThr

NextThrottle ==
    \/ \E k \in ThrottleKeys : IsAllowed(k)
    \/ \E k \in ThrottleKeys : \E g \in 1..MaxGen : DropInFlight(k, g)
    \/ Cleanup
    \/ Tick

\* ---- what the claims speak about ----

\* Calls admitted for key k in the ticks t .. t + len - 1.
RECURSIVE GrantsIn(_, _, _)
GrantsIn(k, t, len) ==
    IF len = 0 \/ t > MaxTime THEN 0
    ELSE thr_grants[k][t] + GrantsIn(k, t + 1, len - 1)

\* C3: for a throttle with concurrency limit C, the InFlight permits
\* outstanding for a key never exceed C.
C3_PermitsWithinConcurrency ==
    thr_cfg.concurrency.some =>
        \A k \in ThrottleKeys : Outstanding(k) <= thr_cfg.concurrency.v

\* C3 witness: C permits are out for a key whose entry was removed by cleanup
\* and created again.
C3_Witness ==
    /\ thr_cfg.concurrency.some
    /\ \E k \in ThrottleKeys :
        /\ Outstanding(k) = thr_cfg.concurrency.v
        /\ thr_gens[k] = 2
        /\ thr_entry[k].present

\* C4 (as stated): with rate n per period, at most n calls for one key are
\* admitted in any window of one period (TicksPerPeriod consecutive ticks).
C4_AtMostNPerWindow ==
    thr_cfg.rate.some =>
        \A k \in ThrottleKeys : \A t \in 0..MaxTime :
            GrantsIn(k, t, TicksPerPeriod) <= thr_cfg.rate.v

\* C4 (amended): at most 2n calls for one key are admitted in any window of
\* one period, end points included (the bucket's n tokens and the n refilled).
C4_AtMostTwiceNPerWindow ==
    thr_cfg.rate.some =>
        \A k \in ThrottleKeys : \A t \in 0..MaxTime :
            GrantsIn(k, t, TicksPerPeriod + 1) <= 2 * thr_cfg.rate.v

\* C4 witness: a key was admitted n times in one tick, its entry then went
\* idle and was removed by cleanup, and a later call created it again.
C4_Witness ==
    /\ thr_cfg.rate.some /\ ~thr_cfg.concurrency.some
    /\ \E k \in ThrottleKeys :
        /\ thr_grants[k][0] = thr_cfg.rate.v
        /\ thr_grants[k][TicksPerPeriod] > 0
        /\ thr_gens[k] = 2
        /\ thr_entry[k].present /\ thr_entry[k].last = TicksPerPeriod

\* A call of is_allowed for key k on which the throttle's condition holds.
IsAllowedMatched(k) == IsAllowedOccupied(k) \/ IsAllowedVacant(k)

\* What a call for key k does with the concurrency limit: with fewer than C
\* permits out it is not refused for concurrency and one more permit is
\* out, whatever the time; with C permits out it is refused and no permit
\* is issued.  A throttle with no rate admits every call it does not refuse
\* for concurrency.
ConcurrencyRefusesAtLimitOnly(k) ==
    IsAllowedMatched(k) /\ thr_cfg.concurrency.some =>
        /\ thr_result'.key = k /\ thr_result'.matched
        /\ IF Outstanding(k) < thr_cfg.concurrency.v
           THEN /\ thr_result'.outcome # "Concurrency"
                /\ Outstanding(k)' = Outstanding(k) + 1
                /\ ~thr_cfg.rate.some => thr_result'.outcome = "Ok"
           ELSE /\ thr_result'.outcome = "Concurrency"
                /\ Outstanding(k) = thr_cfg.concurrency.v
                /\ Outstanding(k)' = Outstanding(k)

\* C19: a throttle with concurrency limit C refuses a call for concurrency
\* only when C permits are out for the key: the first C calls with no
\* release are admitted, the next one is refused, and once a permit was
\* dropped the next call is admitted at once.
C19_RefusedOnlyAtLimit ==
    [][\A k \in ThrottleKeys : ConcurrencyRefusesAtLimitOnly(k)]_vars

\* C19 witness: a call for a key was refused for concurrency with C permits
\* out, on an entry that holds fewer than C permits now that one was
\* dropped.
C19_Witness ==
    /\ thr_cfg.concurrency.some /\ ~thr_cfg.rate.some
    /\ thr_result.matched /\ thr_result.outcome = "Concurrency"
    /\ Outstanding(thr_result.key) = thr_cfg.concurrency.v - 1
    /\ thr_entry[thr_result.key].present

\* The limiter state kept for key k.
LimiterState(k) == <<thr_entry[k], thr_counter[k], thr_permits[k]>>

\* The limiter state of every key but k stays as it was.
OtherKeysUntouched(k) ==
    \A j \in ThrottleKeys \ {k} : LimiterState(j)' = LimiterState(j)

\* A call for key k is refused on the state of key k only: for concurrency
\* with C permits of k out, for rate with less than a request's worth of
\* tokens in k's bucket after the refill; a key with no entry is admitted.
RefusedOnOwnState(k) ==
    /\ thr_result'.key = k
    /\ thr_result'.outcome = "Concurrency" =>
            Outstanding(k) = thr_cfg.concurrency.v
    /\ thr_result'.outcome = "Rate" =>
            /\ thr_entry[k].present
            /\ thr_entry[k].tokens
                    + (thr_now - thr_entry[k].last) * thr_cfg.rate.v
                < RequestCost
    /\ ~thr_entry[k].present => thr_result'.outcome = "Ok"

\* A call on which the throttle's condition does not hold is admitted and
\* changes no limiter state.
NoMatchTouchesNothing(k) ==
    ~thr_result'.matched =>
        /\ thr_result'.outcome = "Ok"
        /\ LimiterState(k)' = LimiterState(k)
        /\ UNCHANGED <<thr_gens, thr_grants>>

\* A call made a period or more after the key's rate limiter was last
\* asked is not refused for rate; a throttle with no concurrency limit
\* admits it.
AllowedAfterPeriod(k) ==
    /\ thr_result'.matched
    /\ thr_cfg.rate.some
    /\ thr_entry[k].present
    /\ thr_now - thr_entry[k].last >= TicksPerPeriod
    => /\ thr_result'.outcome # "Rate"
       /\ ~thr_cfg.concurrency.some => thr_result'.outcome = "Ok"

\* C20: throttle state is kept per key value: what is done under one key
\* never changes the state of another key nor gets it refused, a throttle
\* whose condition does not hold changes no limiter state, and a key that
\* was refused for rate is admitted again once the period has elapsed.
C20_StatePerKey ==
    [][\A k \in ThrottleKeys :
            /\ IsAllowed(k) =>
                    /\ OtherKeysUntouched(k)
                    /\ RefusedOnOwnState(k)
                    /\ NoMatchTouchesNothing(k)
                    /\ AllowedAfterPeriod(k)
            /\ (\E g \in 1..MaxGen : DropInFlight(k, g)) =>
                    OtherKeysUntouched(k)]_vars

\* C20 witness: key a has used up its rate and holds all its permits, and a
\* call for key b was admitted at the same time on an entry of its own.
C20_Witness ==
    /\ thr_cfg.rate.some /\ thr_cfg.concurrency.some
    /\ thr_entry["a"].present
    /\ thr_entry["a"].tokens < RequestCost /\ thr_entry["a"].last = thr_now
    /\ Outstanding("a") = thr_cfg.concurrency.v
    /\ thr_result = [key |-> "b", matched |-> TRUE, outcome |-> "Ok"]
    /\ thr_entry["b"].present /\ Outstanding("b") = 1

\* A call for key k that returns an error leaves the permits held for k as
\* they were.
ErrorAddsNoPermit(k) ==
    (IsAllowedMatched(k) /\ thr_result'.outcome \in {"Concurrency", "Rate"}) =>
        thr_permits'[k] = thr_permits[k]

\* C28 as stated: when is_allowed returns an error for a throttle, for
\* concurrency or for rate, it has added no InFlight permit to the caller's
\* in_flight list for that throttle.
C28_ErrorAddsNoPermit ==
    [][\A k \in ThrottleKeys : ErrorAddsNoPermit(k)]_vars

\* What holds of C28: a call refused for concurrency adds no permit, and a
\* call refused for rate by a throttle that has a concurrency limit adds
\* the one permit it acquired before the rate limiter was asked.
C28_RateErrorKeepsPermit ==
    [][\A k \in ThrottleKeys :
          IsAllowedMatched(k) =>
              /\ thr_result'.outcome = "Concurrency" => thr_permits'[k] = thr_permits[k]
              /\ (thr_result'.outcome = "Rate" /\ thr_cfg.concurrency.some) =>
                     Outstanding(k)' = Outstanding(k) + 1]_vars

\* A call for key k refused for concurrency leaves the rate limiter of k,
\* and all else the throttle keeps for k, as it was.
ConcurrencyRefusalFrame(k) ==
    (IsAllowedMatched(k) /\ thr_result'.outcome = "Concurrency") =>
        /\ LimiterState(k)' = LimiterState(k)
        /\ thr_grants' = thr_grants
        /\ thr_gens' = thr_gens

\* C29: for a throttle with a concurrency limit and a rate limit, a call
\* refused because the concurrency limit is reached consumes no rate token:
\* the rate limiter is left as if the call had not been made.
C29_ConcurrencyRefusalConsumesNoToken ==
    [][\A k \in ThrottleKeys : ConcurrencyRefusalFrame(k)]_vars

\* A call was refused for concurrency while the bucket of its key held a
\* token, and holds it still.
C29_Witness ==
    /\ thr_cfg.rate.some /\ thr_cfg.concurrency.some
    /\ thr_result.outcome = "Concurrency"
    /\ thr_entry[thr_result.key].present
    /\ thr_entry[thr_result.key].tokens >= RequestCost
    /\ Outstanding(thr_result.key) = thr_cfg.concurrency.v

(***************************************************************************)
(*                  Inbound session: Session::ingest                       *)
(***************************************************************************)

\* ---- bounds ----
MaxRcpt == 1            \* params.rcpt_max
MaxMessageSize == 3     \* params.data_max_message_size, in payload units
MaxRcptErrors == 2      \* params.rcpt_errors_max
BigChunk == MaxMessageSize + 1  \* a BDAT chunk no size limit admits

\* ---- the machine word, scaled down to the message size limit ----
WordSize == 2 * (MaxMessageSize + 1)    \* usize counts modulo this
UsizeMax == WordSize - 1
IsizeMax == WordSize \div 2 - 1

\* ---- configured values ----
DataMaxMessages == 1    \* session.data.max-messages
AuthErrorsMax == 2      \* session.auth.errors.max

Smtp == "Smtp"
Lmtp == "Lmtp"

AUTH_PLAIN == "PLAIN"
AUTH_LOGIN == "LOGIN"
AUTH_XOAUTH2 == "XOAUTH2"
Mechanisms == {AUTH_PLAIN, AUTH_LOGIN, AUTH_XOAUTH2}
PlaintextMechanisms == {AUTH_PLAIN, AUTH_LOGIN}

\* ---- State ----
StateOf(kind, remaining, is_last, res, token) ==
    [kind |-> kind, remaining |-> remaining, is_last |-> is_last,
     res |-> res, token |-> token]
StateRequest == StateOf("Request", 0, FALSE, "", "")
StateDefault == StateRequest
StateData == StateOf("Data", 0, FALSE, "", "")
StateBdat(chunk_size, is_last, res) ==
    StateOf("Bdat", chunk_size, is_last, res, "")
StateSasl(token) == StateOf("Sasl", 0, FALSE, "", token)
\* The line receiver of the SASL exchange holds the start of a long line.
StateSaslLong(token) == StateOf("Sasl", 1, FALSE, "", token)
StateDataTooLargeData == StateOf("DataTooLarge", -1, FALSE, "", "DATA")
StateDataTooLargeBdat(chunk_size) ==
    StateOf("DataTooLarge", chunk_size, FALSE, "", "BDAT")
StateRequestTooLarge == StateOf("RequestTooLarge", 0, FALSE, "", "")
StateNone == StateOf("None", 0, FALSE, "", "")

\* ---- SessionParameters: the configurations a connection can have ----
Params(protocol, auth, auth_lookup, auth_require, starttls, rcpt_lookup, rcpt_relay, rcpt_script, rcpt_dsn) ==
    [protocol |-> protocol, auth |-> auth, auth_lookup |-> auth_lookup,
     auth_require |-> auth_require, starttls |-> starttls,
     rcpt_lookup |-> rcpt_lookup, rcpt_relay |-> rcpt_relay,
     rcpt_script |-> rcpt_script, rcpt_dsn |-> rcpt_dsn,
     rcpt_max |-> MaxRcpt, rcpt_errors_max |-> MaxRcptErrors,
     auth_errors_max |-> AuthErrorsMax,
     data_max_message_size |-> MaxMessageSize,
     data_max_messages |-> DataMaxMessages,
     overflow_checks |-> FALSE]

\* The build: with overflow checks (debug) an addition that overflows
\* panics, without them (release) it wraps around.
Debug(params) == [params EXCEPT !.overflow_checks = TRUE]

SessionConfigs ==
    { Params(Smtp, {AUTH_PLAIN, AUTH_LOGIN}, TRUE, FALSE, TRUE,
             TRUE, FALSE, TRUE, TRUE),
      Debug(Params(Smtp, {AUTH_XOAUTH2}, TRUE, TRUE, TRUE,
                   FALSE, TRUE, FALSE, FALSE)),
      [Params(Smtp, {}, TRUE, FALSE, FALSE,
              TRUE, TRUE, FALSE, TRUE) EXCEPT !.rcpt_max = MaxRcpt + 1],
      Params(Smtp, {AUTH_PLAIN, AUTH_LOGIN}, FALSE, FALSE, TRUE,
             FALSE, FALSE, FALSE, FALSE),
      Debug(Params(Lmtp, {}, FALSE, FALSE, FALSE,
                   TRUE, TRUE, TRUE, TRUE)) }

\* ---- Session ----
SessionNew(params, tls) ==
    [state |-> StateDefault, tls |-> tls, params |-> params,
     helo_domain |-> "", mail_from |-> FALSE, rcpt_to |-> <<>>,
     message |-> 0, priority |-> 0, authenticated_as |-> "",
     messages_sent |-> 0, rcpt_errors |-> 0, auth_errors |-> 0]

\* History of the current transaction, kept from the replies written:
\* helo/mail/rcpt say that such a command was answered 250, ordered says
\* that MAIL came after the HELO and every RCPT after the MAIL.  authed
\* says that an AUTH was answered 235.  upgraded says that the session runs
\* on a stream upgraded by STARTTLS, cleared that no HELO was accepted on it
\* yet and that the session upgraded had a HELO domain, a sender, a
\* recipient and an authenticated identity.  rcpt_waits counts the sleeps of
\* rcpt_errors_wait the session has sat through, size is the length of the
\* message given to queue_message since the previous reply.  ehlo is the
\* EHLO response being written: the capabilities it lists, with the state of
\* the connection they were computed from.  accepted lists the addresses of
\* the RCPT commands of the transaction that were answered 250, each once,
\* in the order of their first 250.  peak is the greatest length the
\* buffered message had since the previous reply.
NoEhlo ==
    [tls |-> FALSE, authenticated |-> FALSE, configured |-> {}, capabilities |-> {}]
TxNew ==
    [helo |-> FALSE, mail |-> FALSE, rcpt |-> FALSE, ordered |-> TRUE,
     authed |-> FALSE, upgraded |-> FALSE, cleared |-> FALSE,
     pending |-> 0, evals |-> 0, rcpt_waits |-> 0, size |-> 0,
     ehlo |-> NoEhlo, accepted |-> <<>>, peak |-> 0]
TxReset(tx) ==
    [tx EXCEPT !.mail = FALSE, !.rcpt = FALSE, !.ordered = TRUE,
               !.accepted = <<>>]

\* ---- the bytes handed to ingest ----
\* A buffer is a sequence of lines.  A line is a command (with the answers
\* the lookups, scripts, throttles and the queue will give while it is
\* handled), a line of text, or the "." that ends DATA.  A "LONG" line is a
\* line of MAX_LINE_LENGTH bytes or more that arrives whole, terminator
\* included; LongPart stands for as many bytes of a line whose terminator
\* has not arrived yet, and whatever comes next, up to the first
\* terminator, belongs to that line.
RcptEnv(domain, address, script, allowed) ==
    [domain |-> domain, address |-> address, script |-> script,
     allowed |-> allowed]
RcptOk == RcptEnv("local", "yes", "accept", TRUE)
RcptEnvs ==
    { RcptOk,
      RcptEnv("local", "no", "accept", TRUE),
      RcptEnv("local", "temp", "accept", TRUE),
      RcptEnv("remote", "yes", "accept", TRUE),
      RcptEnv("temp", "yes", "accept", TRUE),
      RcptEnv("local", "yes", "reject", TRUE),
      RcptEnv("local", "yes", "accept", FALSE) }

Line(kind, arg, opt, res, chunk, size, env) ==
    [kind |-> kind, arg |-> arg, opt |-> opt, res |-> res, chunk |-> chunk,
     size |-> size, env |-> env]
Cmd(kind, res) == Line(kind, "", FALSE, res, 0, 1, RcptOk)
Text(size, res) == Line("TEXT", "", FALSE, res, 0, size, RcptOk)

Addresses == {"a", "b"}
QueueResults == {"ok", "reject", "quota", "io"}
Credentials == {"good", "bad"}

Lines ==
    {Cmd(k, "ok") : k \in {"EHLO", "HELO", "LHLO", "MAIL", "DATA", "STARTTLS",
                            "RSET", "NOOP", "QUIT", "LONG"}}
    \cup {Cmd("MAIL", "reject")}
    \cup {Line("RCPT", "a", FALSE, "", 0, 1, e) : e \in RcptEnvs}
    \cup {Line("RCPT", "b", FALSE, "", 0, 1, RcptOk),
          Line("RCPT", "b", TRUE, "", 0, 1, RcptOk)}
    \cup {Line("BDAT", "", l, "ok", n, 1, RcptOk) :
            l \in BOOLEAN, n \in {1, BigChunk}}
    \cup {Line("BDAT", "", TRUE, "quota", 1, 1, RcptOk)}
    \cup {Line("BDAT", "", FALSE, "ok", UsizeMax, 1, RcptOk)}
    \cup {Line("AUTH", m, FALSE, r, 0, 1, RcptOk) :
            m \in Mechanisms, r \in Credentials \cup {""}}
    \cup {Text(n, r) : n \in {1, 2}, r \in Credentials}
    \cup {Line("DOT", "", FALSE, q, 0, 1, RcptOk) : q \in QueueResults}

LongPart == Cmd("LONGPART", "ok")

\* Lines that may follow another one in the same buffer.
Pipelined == {Cmd("MAIL", "ok"), Line("DOT", "", FALSE, "ok", 0, 1, RcptOk)}

Buffers ==
    {<<l>> : l \in Lines} \cup {<<l, p>> : l \in Lines, p \in Pipelined}
        \cup {<<LongPart>>}

RECURSIVE BufLen(_)
BufLen(buf) == IF buf = <<>> THEN 0 ELSE Head(buf).size + BufLen(Tail(buf))

\* ---- the running call: self, the local `state`, and what it wrote ----
\* mech is the mechanism of the AUTH exchange a reply belongs to, if any.
Entry(cmd, code, mech, tx) ==
    [cmd |-> cmd, code |-> code, mech |-> mech, tx |-> tx]

\* self.write(..): the entry keeps the history as it was when the reply was
\* written, with the number of messages handed to the queue (tx.pending)
\* and of credential evaluations (tx.evals) since the previous reply.
Write(c, cmd, code) ==
    [c EXCEPT !.out = Append(@, Entry(cmd, code, c.mech, c.tx)),
              !.tx.pending = 0, !.tx.evals = 0, !.tx.size = 0,
              !.tx.ehlo = NoEhlo, !.tx.peak = 0]

\* `?` on an Err: ingest returns Err(()) at once; self.state stays State::None.
Fail(c) == [c EXCEPT !.ret = "Err"]

\* Mutation: the session forgets its HELO domain and identity as well.
reset_all(s) ==
    [s EXCEPT !.mail_from = FALSE, !.rcpt_to = <<>>, !.message = 0,
              !.priority = 0, !.helo_domain = "", !.authenticated_as = ""]

\* Session::reset
reset(s) ==
    [s EXCEPT !.mail_from = FALSE, !.rcpt_to = <<>>, !.message = 0,
              !.priority = 0]

Contains(seq, x) == \E i \in 1..Len(seq) : seq[i] = x

\* ---- inbound/rcpt.rs ----
\* Mutation: the session is terminated once the count exceeds the maximum.
rcpt_error_above_max(c, code) ==
    LET slept == [c EXCEPT !.tx.rcpt_waits = @ + 1]
        c1 == Write([slept EXCEPT !.s.rcpt_errors = @ + 1], "RCPT", code)
    IN  IF c1.s.rcpt_errors <= c1.s.params.rcpt_errors_max
        THEN c1
        ELSE Fail(Write(c1, "RCPT", "421 4.3.0"))

rcpt_error(c, code) ==
    LET slept == [c EXCEPT !.tx.rcpt_waits = @ + 1]
        c1 == Write([slept EXCEPT !.s.rcpt_errors = @ + 1], "RCPT", code)
    IN  IF c1.s.rcpt_errors < c1.s.params.rcpt_errors_max
        THEN c1
        ELSE Fail(Write(c1, "RCPT", "421 4.3.0"))

\* Mutation: a recipient refused after the push stays in the list.
PopNothing(c) == c

\* self.data.rcpt_to.push(rcpt) and self.data.rcpt_to.pop()
Push(c, address) == [c EXCEPT !.s.rcpt_to = Append(@, address)]
Pop(c) == [c EXCEPT !.s.rcpt_to = SubSeq(@, 1, Len(@) - 1)]

\* The 250 2.1.5 to a RCPT, noted in the history of the transaction.
RcptAccepted(c, address) ==
    [Write(c, "RCPT", "250 2.1.5")
        EXCEPT !.tx.rcpt = TRUE, !.tx.ordered = @ /\ c.tx.mail,
               !.tx.accepted = IF Contains(@, address) THEN @
                               ELSE Append(@, address)]

handle_rcpt_to(c, to) ==
    LET s == c.s
        p == c.s.params
        env == to.env
        pushed == Push(c, to.arg)
    IN
    IF ~s.mail_from THEN Write(c, "RCPT", "503 5.5.1")
    ELSE IF Len(s.rcpt_to) >= p.rcpt_max THEN Write(c, "RCPT", "451 4.5.3")
    ELSE IF to.opt /\ ~p.rcpt_dsn THEN Write(c, "RCPT", "501 5.5.4")
    ELSE IF p.rcpt_lookup /\ env.domain = "local" /\ env.address = "no"
        THEN rcpt_error(c, "550 5.1.2")
    ELSE IF p.rcpt_lookup /\ env.domain = "local" /\ env.address = "temp"
        THEN Write(c, "RCPT", "451 4.4.3")
    ELSE IF p.rcpt_lookup /\ env.domain = "remote" /\ ~p.rcpt_relay
        THEN rcpt_error(c, "550 5.1.2")
    ELSE IF p.rcpt_lookup /\ env.domain = "temp"
        THEN Write(c, "RCPT", "451 4.4.3")
    ELSE IF ~p.rcpt_lookup /\ ~p.rcpt_relay
        THEN rcpt_error(c, "550 5.1.2")
    ELSE IF ~Contains(s.rcpt_to, to.arg)
        THEN IF p.rcpt_script /\ env.script = "reject"
                THEN Write(Pop(pushed), "RCPT", "550 5.7.1")
             ELSE IF ~env.allowed
                THEN Write(Pop(pushed), "RCPT", "451 4.4.5")
             ELSE RcptAccepted(pushed, to.arg)
    ELSE RcptAccepted(c, to.arg)

\* ---- handlers whose code is outside this model's sources ----
handle_mail_from(c, from) ==
    IF c.s.helo_domain = "" THEN Write(c, "MAIL", "503 5.5.1")
    ELSE IF c.s.mail_from THEN Write(c, "MAIL", "503 5.5.1")
    ELSE IF c.s.params.auth_require /\ c.s.authenticated_as = ""
        THEN Write(c, "MAIL", "503 5.5.1")
    ELSE IF from.res = "reject" THEN Write(c, "MAIL", "550 5.7.1")
    ELSE [Write(c, "MAIL", "250 2.1.0")
            EXCEPT !.s.mail_from = TRUE, !.s.priority = 1,
                   !.tx.mail = TRUE, !.tx.ordered = c.tx.helo]

\* Mutation: every configured mechanism is advertised, TLS or not.
EhloAuthMechanismsUnfiltered(s) ==
    IF s.authenticated_as # "" THEN {} ELSE s.params.auth

\* The mechanisms the EHLO response lists after AUTH: none once the session
\* is authenticated, the configured ones otherwise, without the plaintext
\* ones unless the connection uses TLS.
EhloAuthMechanisms(s) ==
    IF s.authenticated_as # "" THEN {}
    ELSE IF s.tls THEN s.params.auth
    ELSE s.params.auth \ PlaintextMechanisms

\* The capabilities of the EHLO response that depend on TLS and on
\* authentication: STARTTLS if the connection is not using TLS yet, AUTH
\* with its mechanisms if there is one to list.
EhloCapabilities(s) ==
    (IF ~s.tls /\ s.params.starttls THEN {"STARTTLS"} ELSE {})
        \cup (IF EhloAuthMechanisms(s) # {} THEN {"AUTH"} ELSE {})
        \cup EhloAuthMechanisms(s)

EhloResponse(s) ==
    [tls |-> s.tls, authenticated |-> s.authenticated_as # "",
     configured |-> s.params.auth, capabilities |-> EhloCapabilities(s)]

handle_ehlo(c, cmd, host) ==
    IF host.res = "reject" THEN Write(c, cmd, "550 5.5.0")
    ELSE [Write([c EXCEPT !.tx.ehlo = EhloResponse(c.s)], cmd, "250")
            EXCEPT !.s.helo_domain = "h", !.tx.helo = TRUE,
                   !.tx.cleared = FALSE]

\* can_send_data: the pair of the session after the reply, if any, and
\* the answer.
can_send_data(c, cmd) ==
    IF c.s.rcpt_to = <<>>
        THEN [c |-> Write(c, cmd, "503 5.5.1"), ok |-> FALSE]
    ELSE IF c.s.messages_sent >= c.s.params.data_max_messages
        THEN [c |-> Write(c, cmd, "451 4.4.5"), ok |-> FALSE]
    ELSE [c |-> c, ok |-> TRUE]

\* queue_message: the message is taken from the session; quota is checked,
\* then the message is persisted and handed to the queue, then the 250 is
\* written; the transaction ends whatever the reply.
MessageQueuedBefore250(c, cmd) ==
    Write([c EXCEPT !.spool = @ + 1, !.tx.pending = @ + 1,
                    !.s.messages_sent = @ + 1], cmd, "250 2.0.0")

queue_message(c, cmd, res) ==
    LET c1 == [c EXCEPT !.s.message = 0, !.tx.size = c.s.message]
        c2 == CASE res = "reject" -> Write(c1, cmd, "550 5.7.7")
                [] res = "quota" -> Write(c1, cmd, "452 4.3.1")
                [] res = "io" -> Write(c1, cmd, "451 4.3.5")
                [] OTHER -> MessageQueuedBefore250(c1, cmd)
    IN  [c2 EXCEPT !.s = reset(@), !.tx = TxReset(@)]

auth_error(c, code) ==
    LET c1 == Write([c EXCEPT !.s.auth_errors = @ + 1], "AUTH", code)
    IN  IF c1.s.auth_errors < c1.s.params.auth_errors_max
        THEN c1
        ELSE Fail(Write(c1, "AUTH", "421 4.3.0"))

\* SaslToken::from_mechanism on the masked mechanism
from_mechanism(mask) ==
    IF mask = {} THEN [some |-> FALSE, token |-> ""]
    ELSE [some |-> TRUE, token |-> CHOOSE m \in mask : TRUE]

\* handle_sasl_response: the session, the token, and whether the exchange
\* goes on (Ok(true)).
Evaluate(c, response) ==
    LET c1 == [c EXCEPT !.tx.evals = @ + 1]
    IN  IF response = "good"
        THEN [Write(c1, "AUTH", "235 2.7.0")
                EXCEPT !.s.authenticated_as = "u", !.tx.authed = TRUE]
        ELSE auth_error(c1, "535 5.7.8")

handle_sasl_response(c, token, response) ==
    IF token = "LOGIN:pass"
        THEN [c |-> Evaluate(c, response), token |-> token, more |-> FALSE]
    ELSE IF token = AUTH_LOGIN
        THEN [c |-> Write(c, "AUTH", "334"),
              token |-> IF response = "" THEN AUTH_LOGIN ELSE "LOGIN:pass",
              more |-> TRUE]
    ELSE IF response = ""
        THEN [c |-> Write(c, "AUTH", "334"), token |-> token, more |-> TRUE]
    ELSE [c |-> Evaluate(c, response), token |-> token, more |-> FALSE]

\* ---- listener/session.rs: ingest ----
AuthAllowed(s) == ~(s.params.auth = {} \/ ~s.params.auth_lookup)
NeverAuthenticated(s) == FALSE
AlreadyAuthenticated(s) == s.authenticated_as # ""
MechanismUnmasked(mechanism, auth) == {mechanism}
MechanismMask(mechanism, auth) == {mechanism} \cap auth

StartTlsContinues == "run"
StartTlsReturn == "Ok(false)"

DataTooLargeQueues(c, cmd) ==
    Write([c EXCEPT !.spool = @ + 1, !.tx.pending = @ + 1], cmd, "552 5.3.4")
DataTooLargeReply(c, cmd) == Write(c, cmd, "552 5.3.4")

BdatNoCheck(c, cmd) == [c |-> c, ok |-> TRUE]
BdatCheck(c, cmd) == can_send_data(c, cmd)

\* Mutation: a chunk that brings the message to the limit is taken.
ChunkFitsAtLimit(chunk_size, s) ==
    chunk_size + s.message <= s.params.data_max_message_size

\* Request::Bdat: the chunk is read into the message only under the limit.
\* The sum is a usize: without overflow checks it wraps around.
ChunkFits(chunk_size, s) ==
    (chunk_size + s.message) % WordSize < s.params.data_max_message_size

\* chunk_size + self.data.message.len() does not fit the word.
Overflows(chunk_size, s) == chunk_size + s.message > UsizeMax

\* Mutation: the vector grows whatever is asked of it.
CapacityNeverOverflows(len, additional) == FALSE

\* Vec::with_capacity and Vec::reserve panic when the capacity asked for
\* exceeds isize::MAX bytes.
CapacityOverflow(len, additional) == len + additional > IsizeMax

\* A panic unwinds the task: the call does not return.
Panic(c) == [c EXCEPT !.ret = "panic"]

\* Request::Bdat
request_bdat(c, u) ==
    IF c.s.params.overflow_checks /\ Overflows(u.chunk, c.s) THEN Panic(c)
    ELSE IF ChunkFits(u.chunk, c.s)
        THEN IF CapacityOverflow(c.s.message, u.chunk) THEN Panic(c)
             ELSE [c EXCEPT !.state = StateBdat(u.chunk, u.opt, u.res)]
    ELSE [c EXCEPT !.state = StateDataTooLargeBdat(u.chunk)]

request_auth(c, u) ==
    IF ~AuthAllowed(c.s) THEN Write(c, "AUTH", "503 5.5.1")
    ELSE IF AlreadyAuthenticated(c.s) THEN Write(c, "AUTH", "503 5.5.1")
    ELSE LET t == from_mechanism(MechanismMask(u.arg, c.s.params.auth))
         IN  IF t.some
             THEN LET r == handle_sasl_response(c, t.token, u.res)
                  IN  IF r.c.ret = "run" /\ r.more
                      THEN [r.c EXCEPT !.state = StateSasl(r.token)]
                      ELSE r.c
             ELSE Write(c, "AUTH", "554 5.7.8")

\* One parsed line in State::Request.
request(c, u) ==
    LET k == u.kind
        p == c.s.params
    IN
    CASE k = "RCPT" -> handle_rcpt_to(c, u)
      [] k = "MAIL" -> handle_mail_from(c, u)
      [] k = "EHLO" ->
            IF p.protocol = Smtp THEN handle_ehlo(c, "EHLO", u)
            ELSE Write(c, "EHLO", "500 5.5.1")
      [] k = "DATA" ->
            LET r == can_send_data(c, "DATA")
            IN  IF r.c.ret = "run" /\ r.ok
                THEN [Write(r.c, "DATA", "354")
                        EXCEPT !.s.message = 0, !.state = StateData]
                ELSE r.c
      [] k = "BDAT" -> request_bdat(c, u)
      [] k = "AUTH" -> request_auth([c EXCEPT !.mech = u.arg], u)
      [] k = "NOOP" -> Write(c, "NOOP", "250 2.0.0")
      [] k = "STARTTLS" ->
            IF p.starttls
            THEN [Write(c, "STARTTLS", "220 2.0.0")
                    EXCEPT !.s.state = StateDefault, !.ret = StartTlsReturn]
            ELSE Write(c, "STARTTLS", "504 5.7.4")
      [] k = "RSET" ->
            [Write([c EXCEPT !.s = reset(@)], "RSET", "250 2.0.0")
                EXCEPT !.tx = TxReset(@)]
      [] k = "QUIT" -> Fail(Write(c, "QUIT", "221 2.0.0"))
      [] k = "HELO" ->
            IF p.protocol = Smtp /\ c.s.helo_domain = ""
            THEN [Write(c, "HELO", "250")
                    EXCEPT !.s.helo_domain = "h", !.tx.helo = TRUE,
                           !.tx.cleared = FALSE]
            ELSE Write(c, "HELO", "503 5.5.1")
      [] k = "LHLO" ->
            IF p.protocol = Lmtp THEN handle_ehlo(c, "LHLO", u)
            ELSE Write(c, "LHLO", "502 5.5.1")
      [] k = "ETRN" -> Write(c, "ETRN", "502 5.5.1")
      [] k = "LONG" -> Write(c, "LONG", "500 5.5.1")
      [] OTHER -> Write(c, "?", "500 5.5.1")

\* DataReceiver::ingest: appends up to the "." line; done when it is found.
RECURSIVE data_ingest(_, _)
data_ingest(message, buf) ==
    IF buf = <<>>
        THEN [message |-> message, rest |-> <<>>, done |-> FALSE, res |-> ""]
    ELSE IF Head(buf).kind = "DOT"
        THEN [message |-> message, rest |-> Tail(buf), done |-> TRUE,
              res |-> Head(buf).res]
    ELSE data_ingest(message + Head(buf).size, Tail(buf))

\* BdatReceiver::ingest: appends exactly the bytes left of the chunk; what
\* follows them in a line stays in the buffer.
RECURSIVE bdat_ingest(_, _, _)
bdat_ingest(remaining, message, buf) ==
    IF remaining = 0
        THEN [remaining |-> 0, message |-> message, rest |-> buf,
              done |-> TRUE]
    ELSE IF buf = <<>>
        THEN [remaining |-> remaining, message |-> message, rest |-> <<>>,
              done |-> FALSE]
    ELSE IF Head(buf).size <= remaining
        THEN bdat_ingest(remaining - Head(buf).size,
                         message + Head(buf).size, Tail(buf))
    ELSE [remaining |-> 0, message |-> message + remaining,
          rest |-> <<Text(Head(buf).size - remaining, "bad")>> \o Tail(buf),
          done |-> TRUE]

\* DummyDataReceiver::ingest: the same framing, nothing kept.
dummy_data_ingest(remaining, buf) ==
    IF remaining < 0
    THEN LET r == data_ingest(0, buf)
         IN  [remaining |-> remaining, rest |-> r.rest, done |-> r.done]
    ELSE LET r == bdat_ingest(remaining, 0, buf)
         IN  [remaining |-> r.remaining, rest |-> r.rest, done |-> r.done]

\* Mutation: a long line is taken for too long also when it arrives whole.
AnyLongLine(u) == u.kind \in {"LONG", "LONGPART"}

\* Error::ResponseTooLong: MAX_LINE_LENGTH bytes of a line are there and its
\* terminator is not.
LineTooLong(u) == u = LongPart

\* State::RequestTooLarge, with the kind of line that led to it.
TooLargeAfter(u) == [StateRequestTooLarge EXCEPT !.res = u.kind]

\* Mutation: the state taken at the start of the call is not put back.
BreakWithoutState(c) == [c EXCEPT !.ret = "Ok(true)"]

\* State::None => unreachable!(): the task panics.
Unreachable(c) == [c EXCEPT !.ret = "unreachable"]

\* break 'outer: self.state = state; Ok(true)
Break(c) == [c EXCEPT !.s.state = c.state, !.ret = "Ok(true)"]

\* Mutation: ingest returns early on an error only.
ReturnedOnErr(c) == c.ret = "Err"

\* return Ok(false), or `?` on an Err: the call is over, whatever is left of
\* the buffer.
Returned(c) == c.ret # "run"

\* Mutation: a payload that brings the message to the limit is taken.
DataFitsAtLimit(c) ==
    c.s.message + c.len <= c.s.params.data_max_message_size

\* State::Data: the bytes are read only if, with all of them, the message
\* stays under the limit.
DataFits(c) == c.s.message + c.len < c.s.params.data_max_message_size

\* The message grew to this length.
Grown(c, message) ==
    [c EXCEPT !.s.message = message,
              !.tx.peak = IF message > @ THEN message ELSE @]

RECURSIVE ingest_loop(_, _)
ingest_loop(c, buf) ==
    IF Returned(c) THEN c
    ELSE
    LET st == c.state
        kind == c.state.kind
        TokenMechanism == IF st.token = "LOGIN:pass" THEN AUTH_LOGIN ELSE st.token
    IN
    CASE kind = "Request" ->
            IF buf = <<>> THEN Break(c)
            ELSE IF LineTooLong(Head(buf))
                THEN ingest_loop([c EXCEPT !.state = TooLargeAfter(Head(buf))],
                                 Tail(buf))
            ELSE ingest_loop(request([c EXCEPT !.mech = ""], Head(buf)),
                             Tail(buf))
      [] kind = "Data" ->
            IF DataFits(c)
            THEN LET r == data_ingest(c.s.message, buf)
                     c1 == Grown(c, r.message)
                 IN  IF r.done
                     THEN ingest_loop([queue_message(c1, "DATA", r.res)
                                         EXCEPT !.state = StateDefault], r.rest)
                     ELSE Break(c1)
            ELSE ingest_loop([c EXCEPT !.state = StateDataTooLargeData], buf)
      [] kind = "Bdat" ->
            LET r == bdat_ingest(st.remaining, c.s.message, buf)
                c1 == Grown(c, r.message)
            IN  IF r.done
                THEN LET a == BdatCheck(c1, "BDAT")
                         c2 == IF a.ok
                               THEN IF st.is_last
                                    THEN queue_message(a.c, "BDAT", st.res)
                                    ELSE Write(a.c, "BDAT", "250 2.6.0")
                               ELSE [a.c EXCEPT !.s.message = 0]
                     IN  ingest_loop([c2 EXCEPT !.state = StateDefault], r.rest)
                ELSE Break([c1 EXCEPT !.state.remaining = r.remaining])
      [] kind = "Sasl" ->
            IF buf = <<>> THEN Break(c)
            ELSE IF Head(buf) = LongPart
                THEN ingest_loop([c EXCEPT !.state = StateSaslLong(st.token)],
                                 Tail(buf))
            ELSE IF Head(buf).kind # "LONG" /\ st.remaining = 0
                THEN LET r == handle_sasl_response(
                                [c EXCEPT !.mech = TokenMechanism],
                                st.token, Head(buf).res)
                     IN  IF r.c.ret = "run" /\ r.more
                         THEN ingest_loop([r.c EXCEPT !.state = StateSasl(r.token)],
                                          Tail(buf))
                         ELSE ingest_loop([r.c EXCEPT !.state = StateDefault],
                                          Tail(buf))
            ELSE ingest_loop([auth_error([c EXCEPT !.mech = TokenMechanism],
                                         "500 5.5.6")
                                EXCEPT !.state = StateDefault], Tail(buf))
      [] kind = "DataTooLarge" ->
            LET r == dummy_data_ingest(st.remaining, buf)
            IN  IF r.done
                THEN ingest_loop(
                        [DataTooLargeReply([c EXCEPT !.s.message = 0], st.token)
                            EXCEPT !.state = StateDefault], r.rest)
                ELSE Break([c EXCEPT !.state.remaining = r.remaining])
      [] kind = "RequestTooLarge" ->
            IF buf = <<>> THEN Break(c)
            ELSE IF Head(buf) = LongPart THEN ingest_loop(c, Tail(buf))
            ELSE ingest_loop([Write(c, "LONG", "554 5.3.4")
                                EXCEPT !.state = StateDefault], Tail(buf))
      [] OTHER -> Unreachable(c)

\* Session::ingest(bytes)
ingest(s, spool, tx, bytes) ==
    ingest_loop([s |-> [s EXCEPT !.state = StateNone], state |-> s.state,
                 out |-> <<>>, spool |-> spool, ret |-> "run", tx |-> tx,
                 mech |-> "",
                 len |-> BufLen(bytes)], bytes)

\* ---- the session as a state machine ----
SessInit ==
    /\ session \in {SessionNew(p, FALSE) : p \in SessionConfigs}
    /\ s_out = <<>>
    /\ s_spool = 0
    /\ s_ret = "Ok(true)"
    /\ s_tx = TxNew

\* No connection.
SessIdle ==
    /\ session = [SessionNew(Params(Smtp, {}, FALSE, FALSE, FALSE, FALSE,
                                    FALSE, FALSE, FALSE), FALSE)
                    EXCEPT !.state = StateNone]
    /\ s_out = <<>>
    /\ s_spool = 0
    /\ s_ret = "Err"
    /\ s_tx = TxNew

\* The connection task reads bytes and hands them to ingest.
Ingest(bytes) ==
    /\ s_ret = "Ok(true)"
    /\ s_out = <<>>
    /\ LET c == ingest(session, s_spool, s_tx, bytes)
       IN  /\ session' = c.s
           /\ s_out' = c.out
           /\ s_spool' = c.spool
           /\ s_ret' = c.ret
           /\ s_tx' = c.tx
    /\ UNCHANGED notSess

\* ingest returned Ok(false): the stream is upgraded to TLS and the session
\* starts over on it.
TlsUpgrade ==
    /\ s_ret = "Ok(false)"
    /\ session' = SessionNew([session.params EXCEPT !.starttls = FALSE], TRUE)
    /\ s_tx' = [TxNew EXCEPT
                    !.upgraded = TRUE,
                    !.cleared = /\ session.helo_domain # ""
                                /\ session.mail_from
                                /\ session.rcpt_to # <<>>
                                /\ session.authenticated_as # ""]
    /\ s_ret' = "Ok(true)"
    /\ UNCHANGED <<s_out, s_spool>>
    /\ UNCHANGED notSess

\* The peer reads the replies written so far; it sends its next bytes after
\* that (commands it pipelines travel in one buffer).
ReadReplies ==
    /\ s_out # <<>>
    /\ s_ret # "Ok(false)"
    /\ s_out' = <<>>
    /\ UNCHANGED <<session, s_spool, s_ret, s_tx>>
    /\ UNCHANGED notSess

NextSession ==
    \/ \E bytes \in Buffers : Ingest(bytes)
    \/ TlsUpgrade
    \/ ReadReplies

\* ---- what the claims speak about ----

Replies == {s_out[i] : i \in 1..Len(s_out)}

\* The reply was written right after a message was handed to the queue.
Queued(e) == e.tx.pending > 0

\* A message is handed to the queue only after a HELO, then a MAIL, then a
\* RCPT of the current transaction were answered 250.
QueuedInOrder ==
    \A e \in Replies :
        Queued(e) => e.tx.helo /\ e.tx.mail /\ e.tx.rcpt /\ e.tx.ordered

RcptWithoutMailIs503 ==
    \A e \in Replies : e.cmd = "RCPT" /\ ~e.tx.mail => e.code = "503 5.5.1"

DataWithoutRcptIs503 ==
    \A e \in Replies :
        e.cmd = "DATA" /\ ~e.tx.rcpt => e.code = "503 5.5.1" /\ ~Queued(e)

\* C1 (as stated): a message is queued only after HELO, MAIL and RCPT were
\* accepted in this order; RCPT without an accepted MAIL is answered
\* 503 5.5.1; DATA or BDAT without an accepted recipient is answered
\* 503 5.5.1 and queues nothing.
C1_EnvelopeOrder ==
    /\ QueuedInOrder
    /\ RcptWithoutMailIs503
    /\ DataWithoutRcptIs503
    /\ \A e \in Replies :
        e.cmd = "BDAT" /\ ~e.tx.rcpt => e.code = "503 5.5.1" /\ ~Queued(e)

\* C1 (amended): as above, but a BDAT chunk without an accepted recipient is
\* answered 503 5.5.1 or, when the chunk reaches the message size limit,
\* 552 5.3.4; it queues nothing in either case.
C1_EnvelopeOrderBdatTooLarge ==
    /\ QueuedInOrder
    /\ RcptWithoutMailIs503
    /\ DataWithoutRcptIs503
    /\ \A e \in Replies :
        e.cmd = "BDAT" /\ ~e.tx.rcpt =>
            e.code \in {"503 5.5.1", "552 5.3.4"} /\ ~Queued(e)

\* C1 witness: after one message was queued, a new MAIL was accepted and a
\* BDAT chunk sent without any RCPT was read and answered 503 5.5.1.
C1_Witness ==
    /\ s_spool = 1
    /\ \E e \in Replies :
        e.cmd = "BDAT" /\ e.tx.mail /\ ~e.tx.rcpt /\ e.code = "503 5.5.1"

\* C2: the final reply to DATA or to the last BDAT chunk is 250 exactly when
\* the message was persisted and handed to the queue just before that reply
\* was written; no other reply follows a hand-over, and no hand-over is left
\* without its reply.
C2_FinalReply250IffQueued ==
    /\ \A e \in Replies :
        /\ e.tx.pending <= 1
        /\ Queued(e) <=> (e.cmd \in {"DATA", "BDAT"} /\ e.code = "250 2.0.0")
    /\ s_tx.pending = 0

\* C2 witness: a message over the size limit was answered 552 5.3.4, and a
\* message was queued on the same connection.
C2_Witness ==
    /\ s_spool = 1
    /\ \E e \in Replies : e.cmd = "DATA" /\ e.code = "552 5.3.4"

C9_AuthOnlyWhenAllowed ==
    /\ session.state.kind = "Sasl" =>
            AuthAllowed(session) /\ session.authenticated_as = ""
    /\ \A e \in Replies :
        e.cmd = "AUTH" /\ (~AuthAllowed(session) \/ e.tx.authed) =>
            e.code = "503 5.5.1" /\ e.tx.evals = 0
    /\ s_tx.authed <=> session.authenticated_as # ""

\* C9 witness: an authenticated session sent AUTH again and got 503 5.5.1.
C9_Witness ==
    /\ session.authenticated_as # ""
    /\ \E e \in Replies :
        e.cmd = "AUTH" /\ e.tx.authed /\ e.code = "503 5.5.1"

\* A call of ingest made while the session drains (State::DataTooLarge):
\* either it goes on draining, and then it writes nothing, queues nothing
\* and changes nothing of the session but the bytes left of the chunk; or
\* the payload ends, and then its first reply is the 552 5.3.4, with
\* nothing handed to the queue, the only 552 of that call.
Drained ==
    session.state.kind = "DataTooLarge" /\ session' # session =>
        \/ /\ session'.state.kind = "DataTooLarge"
           /\ session'.state.token = session.state.token
           /\ session'.state.remaining < session.state.remaining
           /\ session' = [session EXCEPT
                            !.state.remaining = session'.state.remaining]
           /\ s_out' = <<>> /\ s_spool' = s_spool /\ s_ret' = "Ok(true)"
        \/ /\ Len(s_out') >= 1
           /\ s_out'[1].code = "552 5.3.4"
           /\ s_out'[1].cmd = session.state.token
           /\ s_out'[1].tx.pending = 0 /\ s_out'[1].tx.size = 0
           /\ \A i \in 2..Len(s_out') : s_out'[i].code # "552 5.3.4"

\* A call of ingest made while the session reads a DATA payload: the
\* payload stays under the limit, or the session drains it and has added
\* nothing to the message, or the payload ended in this call.
DataStep ==
    session.state.kind = "Data" /\ session' # session =>
        \/ /\ session'.state.kind = "Data"
           /\ session'.message < session.params.data_max_message_size
           /\ s_out' = <<>>
        \/ /\ session'.state = StateDataTooLargeData
           /\ session'.message = session.message
           /\ s_out' = <<>> /\ s_spool' = s_spool
        \/ /\ Len(s_out') >= 1 /\ s_out'[1].cmd = "DATA"

LineDiscarded ==
    session.state.kind = "RequestTooLarge" /\ s_out = <<>> =>
        \/ UNCHANGED <<session, s_out, s_spool, s_ret, s_tx>>
        \/ /\ Len(s_out') >= 1
           /\ s_out'[1] = Entry("LONG", "554 5.3.4", "", s_tx)
           /\ \A i \in 2..Len(s_out') : s_out'[i].code # "554 5.3.4"
           /\ Len(s_out') = 1 =>
                /\ session' = [session EXCEPT !.state = StateDefault]
                /\ s_tx' = s_tx /\ s_spool' = s_spool /\ s_ret' = "Ok(true)"

\* State::RequestTooLarge is entered on a line whose terminator has not
\* arrived, and the 554 5.3.4 is the reply to such a line only.
OnlyUnterminatedTooLarge ==
    /\ session.state.kind = "RequestTooLarge" =>
            session.state.res = "LONGPART" /\ s_out = <<>>
    /\ \A e \in Replies : e.code = "554 5.3.4" => e.cmd = "LONG"

\* C18 as stated: every command line longer than MAX_LINE_LENGTH is
\* discarded up to its terminator and answered with one 554 5.3.4, after
\* which the next line is parsed normally.
C18_LongLineIs554 ==
    /\ [](\A e \in Replies : e.cmd = "LONG" => e.code = "554 5.3.4")
    /\ [][LineDiscarded]_vars

\* C18, amended: a command line of which MAX_LINE_LENGTH bytes or more have
\* arrived without the terminator moves the session to RequestTooLarge, is
\* discarded up to its terminator and answered with one 554 5.3.4, after
\* which the next line is parsed normally; a line that long which arrives
\* whole in one read is parsed as a command (500 5.5.1 when unknown).
C18_UnterminatedLongLineIs554 ==
    /\ [](OnlyUnterminatedTooLarge)
    /\ [](\A e \in Replies : e.cmd = "LONG" => e.code \in {"554 5.3.4", "500 5.5.1"})
    /\ [][LineDiscarded]_vars

\* C18 witness: after a MAIL was accepted, a long line was discarded up to
\* its terminator and answered 554 5.3.4; the MAIL that followed in the
\* same read was parsed and refused as a second MAIL.
C18_Witness ==
    /\ Len(s_out) = 2
    /\ s_out[1].cmd = "LONG" /\ s_out[1].code = "554 5.3.4" /\ s_out[1].tx.mail
    /\ s_out[2].cmd = "MAIL" /\ s_out[2].code = "503 5.5.1"
    /\ session.state = StateDefault /\ session.mail_from

\* The session was terminated for its RCPT errors.
RcptTerminated ==
    \E e \in Replies : e.cmd = "RCPT" /\ e.code = "421 4.3.0"

\* Every RCPT error counted was delayed by rcpt_errors_wait before its reply.
RcptErrorsDelayed ==
    /\ s_tx.rcpt_waits = session.rcpt_errors
    /\ \A e \in Replies :
        e.cmd = "RCPT" /\ e.code \in {"550 5.1.2", "421 4.3.0"} =>
            e.tx.rcpt_waits >= 1

\* C16 as stated: every counted RCPT rejection is delayed and counted; the
\* session is terminated with 421 4.3.0 when the count exceeds
\* rcpt_errors_max, and not while the count has not exceeded it.
C16_TerminatedAboveErrorsMax ==
    /\ RcptErrorsDelayed
    /\ RcptTerminated =>
            s_ret = "Err" /\ session.rcpt_errors > session.params.rcpt_errors_max
    /\ session.rcpt_errors <= session.params.rcpt_errors_max => ~RcptTerminated

\* C16, amended: every counted RCPT rejection is delayed and counted; the
\* session is terminated with 421 4.3.0 when the count reaches
\* rcpt_errors_max, and not while the count is below it.
C16_TerminatedAtErrorsMax ==
    /\ RcptErrorsDelayed
    /\ RcptTerminated =>
            s_ret = "Err" /\ session.rcpt_errors = session.params.rcpt_errors_max
    /\ session.rcpt_errors >= session.params.rcpt_errors_max => s_ret = "Err"
    /\ session.rcpt_errors < session.params.rcpt_errors_max => ~RcptTerminated

\* C16 witness: the rejection that brought the count to rcpt_errors_max was
\* answered 550 and then 421, after as many delays, and ingest returned Err.
C16_Witness ==
    /\ s_ret = "Err"
    /\ session.rcpt_errors = MaxRcptErrors
    /\ s_tx.rcpt_waits = MaxRcptErrors
    /\ Len(s_out) = 2
    /\ s_out[1].cmd = "RCPT" /\ s_out[1].code = "550 5.1.2"
    /\ s_out[2].cmd = "RCPT" /\ s_out[2].code = "421 4.3.0"
    /\ s_out[2].tx.rcpt_waits = MaxRcptErrors

\* ---- EHLO capabilities ----

\* The EHLO (or LHLO) responses among the replies not read yet.
EhloResponses ==
    {s_out[i].tx.ehlo : i \in {j \in 1..Len(s_out) :
        s_out[j].cmd \in {"EHLO", "LHLO"} /\ s_out[j].code = "250"}}

\* The session of a response was authenticated or on TLS exactly when the
\* history says so.
EhloSeesConnection ==
    \A i \in 1..Len(s_out) :
        (s_out[i].cmd \in {"EHLO", "LHLO"} /\ s_out[i].code = "250") =>
            /\ s_out[i].tx.ehlo.tls = s_out[i].tx.upgraded
            /\ s_out[i].tx.authed => s_out[i].tx.ehlo.authenticated

\* C26: the EHLO response advertises STARTTLS only when the connection is
\* not using TLS, advertises an AUTH mechanism only when the session is not
\* authenticated, the mechanism is configured and, for PLAIN and LOGIN, the
\* connection uses TLS, and never advertises AUTH when no mechanism is
\* configured.
C26_EhloCapabilities ==
    /\ EhloSeesConnection
    /\ \A r \in EhloResponses :
        /\ "STARTTLS" \in r.capabilities => ~r.tls
        /\ \A m \in Mechanisms :
               m \in r.capabilities =>
                   /\ ~r.authenticated
                   /\ m \in r.configured
                   /\ m \in PlaintextMechanisms => r.tls
                   /\ "AUTH" \in r.capabilities
        /\ "AUTH" \in r.capabilities =>
               /\ ~r.authenticated
               /\ r.configured # {}
               /\ r.capabilities \cap Mechanisms # {}

\* An EHLO response on TLS advertised PLAIN and LOGIN and no STARTTLS.
C26_Witness ==
    \E r \in EhloResponses :
        /\ r.tls
        /\ PlaintextMechanisms \subseteq r.capabilities
        /\ "STARTTLS" \notin r.capabilities

\* An EHLO response without TLS left PLAIN and LOGIN out although they are
\* configured, and advertised STARTTLS.
C26_WitnessPlaintext ==
    \E r \in EhloResponses :
        /\ ~r.tls
        /\ PlaintextMechanisms \subseteq r.configured
        /\ r.capabilities = {"STARTTLS"}

\* An EHLO response to an authenticated session advertised no AUTH.
C26_WitnessAuthenticated ==
    \E r \in EhloResponses :
        r.authenticated /\ r.configured # {} /\ "AUTH" \notin r.capabilities

\* ---- bytes pipelined after STARTTLS ----

StartTlsLine == Cmd("STARTTLS", "ok")

\* What a call of ingest leaves behind.
IngestOutcome(c) == <<c.s, c.out, c.spool, c.ret, c.tx>>

\* A 220 to STARTTLS is the last reply written, and ingest has returned
\* Ok(false) or the stream was upgraded and the session is as new.
StartTlsIsLastReply ==
    \A i \in 1..Len(s_out) :
        (s_out[i].cmd = "STARTTLS" /\ s_out[i].code = "220 2.0.0") =>
            /\ i = Len(s_out)
            /\ \/ s_ret = "Ok(false)"
               \/ /\ s_ret = "Ok(true)"
                  /\ s_tx.upgraded
                  /\ session = SessionNew(session.params, TRUE)

\* When ingest accepts a STARTTLS line, a command that follows it in the
\* buffer changes nothing: the call ends as it does without that command.
PipelinedAfterStartTlsDropped ==
    s_ret = "Ok(true)" =>
        LET a == ingest(session, s_spool, s_tx, <<StartTlsLine>>)
        IN  a.ret = "Ok(false)" =>
                \A p \in Pipelined :
                    IngestOutcome(ingest(session, s_spool, s_tx, <<StartTlsLine, p>>))
                        = IngestOutcome(a)

\* The TLS handshake answers nothing and queues nothing.
HandshakeAnswersNothing ==
    [][(s_ret = "Ok(false)" /\ s_ret' # "Ok(false)") =>
          /\ s_out' = s_out
          /\ s_spool' = s_spool
          /\ session' = SessionNew(session'.params, TRUE)]_vars

\* C30: when STARTTLS is accepted ingest returns at once and the bytes that
\* follow the STARTTLS line in the buffer are discarded: no command
\* pipelined after STARTTLS is executed or answered, before or after the
\* TLS handshake.
C30_PipelinedAfterStartTlsDiscarded ==
    /\ [](StartTlsIsLastReply /\ PipelinedAfterStartTlsDropped)
    /\ HandshakeAnswersNothing

\* STARTTLS was accepted by a session that had said EHLO, so that a MAIL
\* pipelined after it would have been answered 250.
C30_Witness ==
    /\ s_ret = "Ok(false)"
    /\ s_out # <<>>
    /\ s_out[Len(s_out)].cmd = "STARTTLS"
    /\ s_out[Len(s_out)].code = "220 2.0.0"
    /\ session.helo_domain # ""
    /\ s_out[Len(s_out)].tx.helo

\* ---- the recipients of the transaction ----

RcptLines == {u \in Lines : u.kind = "RCPT"}

\* One RCPT line handed to a session that waits for a command.
RcptCall(u) == ingest(session, s_spool, s_tx, <<u>>)
AwaitsCommand == s_ret = "Ok(true)" /\ session.state = StateRequest

NoRepeats(seq) == \A i, j \in 1..Len(seq) : seq[i] = seq[j] => i = j

\* rcpt_to is the list of the addresses answered 250 in this transaction,
\* without repeats and never longer than rcpt_max.
RcptToIsAccepted ==
    /\ session.rcpt_to = s_tx.accepted
    /\ NoRepeats(session.rcpt_to)
    /\ Len(session.rcpt_to) <= session.params.rcpt_max

\* A RCPT answered with another code than 250 leaves the list as it was; a
\* RCPT answered 250 adds its address at the end unless the list has it.
RcptFrame ==
    AwaitsCommand =>
        \A u \in RcptLines :
            LET a == RcptCall(u)
            IN  IF a.out[1].code = "250 2.1.5"
                THEN a.s.rcpt_to =
                        IF Contains(session.rcpt_to, u.arg) THEN session.rcpt_to
                        ELSE Append(session.rcpt_to, u.arg)
                ELSE a.s.rcpt_to = session.rcpt_to

\* The answers of the checks made before the list is looked at.
EarlierRefusals ==
    {"451 4.5.3", "501 5.5.4", "550 5.1.2", "451 4.4.3"}

\* C31 (as stated): rcpt_to is the duplicate-free sequence of the recipients
\* answered 250 in the current transaction, at most rcpt_max long; a RCPT
\* answered with another code leaves the list as before; a repeated RCPT for
\* an address already in the list is answered 250 and adds no second entry.
C31_RepeatedRcptIs250 ==
    /\ RcptToIsAccepted
    /\ RcptFrame
    /\ AwaitsCommand =>
        \A u \in RcptLines :
            Contains(session.rcpt_to, u.arg) =>
                /\ RcptCall(u).out[1].code = "250 2.1.5"
                /\ RcptCall(u).s.rcpt_to = session.rcpt_to

\* C31 (amended): as above, but a repeated RCPT for an address already in
\* the list goes through the checks made before the list is looked at: it is
\* answered 451 4.5.3 when the list is full, 501 5.5.4, 550 5.1.2 or
\* 451 4.4.3 when those checks refuse it, and 250 otherwise, whatever the
\* Sieve script and the rate limiter would say; it never adds an entry.
C31_RepeatedRcptPassesEarlierChecks ==
    /\ RcptToIsAccepted
    /\ RcptFrame
    /\ AwaitsCommand =>
        \A u \in RcptLines :
            Contains(session.rcpt_to, u.arg) =>
                /\ RcptCall(u).out[1].code \in EarlierRefusals \cup {"250 2.1.5"}
                /\ Len(session.rcpt_to) >= session.params.rcpt_max =>
                        RcptCall(u).out[1].code = "451 4.5.3"
                /\ RcptCall(u).s.rcpt_to = session.rcpt_to

\* C31 witness: with one recipient in a list that admits two, the RCPT that
\* repeated it was answered 250 and the list still has it once.
C31_Witness ==
    /\ Len(session.rcpt_to) < session.params.rcpt_max
    /\ session.rcpt_to = <<"a">>
    /\ s_tx.accepted = <<"a">>
    /\ Len(s_out) = 1
    /\ s_out[1].cmd = "RCPT" /\ s_out[1].code = "250 2.1.5"
    /\ s_out[1].tx.accepted = <<"a">>

\* A recipient refused by the rate limiter after the push is not in the list.
C31_WitnessRefused ==
    /\ session.rcpt_to = <<"b">>
    /\ Len(s_out) = 1
    /\ s_out[1].cmd = "RCPT" /\ s_out[1].code = "451 4.4.5"
    /\ s_out[1].tx.accepted = <<"b">>

\* ---- State::None ----

StatesAfterOk ==
    {"Request", "Data", "Bdat", "Sasl", "DataTooLarge", "RequestTooLarge"}

\* C32: ingest never leaves the session in State::None when it returns Ok:
\* after Ok(true) the state is one of Request, Data, Bdat, Sasl,
\* DataTooLarge and RequestTooLarge, after Ok(false) it is Request;
\* State::None remains only when the call did not return Ok, and the
\* unreachable!() branch is never taken by a call made after calls that all
\* returned Ok.
C32_NoneOnlyAfterErr ==
    /\ s_ret = "Ok(true)" => session.state.kind \in StatesAfterOk
    /\ s_ret = "Ok(false)" => session.state = StateDefault
    /\ session.state = StateNone => s_ret \notin {"Ok(true)", "Ok(false)"}
    /\ s_ret # "unreachable"

\* C32 witness: ingest returned Ok(true) in the middle of a BDAT chunk and
\* the session is in State::Bdat with the bytes that are left to read.
C32_Witness ==
    /\ s_ret = "Ok(true)"
    /\ session.state.kind = "Bdat"
    /\ session.state.remaining > 0

\* QUIT was answered 221 and ingest returned Err: the state is State::None.
C32_WitnessErr ==
    /\ s_ret = "Err"
    /\ session.state = StateNone
    /\ s_out # <<>> /\ s_out[Len(s_out)].cmd = "QUIT"

\* ---- the length of the buffered message ----

Limit == session.params.data_max_message_size

\* The message was never at the limit or above: not now, not since the
\* previous reply, not when a reply was written or the message handed over.
MessageBelowLimit ==
    /\ session.message < Limit
    /\ s_tx.peak < Limit
    /\ \A e \in Replies : e.tx.peak < Limit /\ e.tx.size < Limit

\* A call made in State::Data appended bytes.
Appended(a) ==
    \/ a.s.message > session.message
    \/ a.tx.peak > session.message
    \/ \E i \in 1..Len(a.out) : a.out[i].tx.peak > session.message

\* In State::Data bytes are appended only by a call whose bytes, all of
\* them, keep the message under the limit.
DataAppendsBelowLimit ==
    (s_ret = "Ok(true)" /\ session.state.kind = "Data") =>
        \A bytes \in Buffers :
            Appended(ingest(session, s_spool, s_tx, bytes)) =>
                session.message + BufLen(bytes) < Limit

\* C33: the buffered message is at every point strictly shorter than
\* data_max_message_size: in State::Data bytes are appended only while the
\* buffered length plus the incoming bytes is below the limit, and a BDAT
\* chunk being read is one whose size plus the buffered length was below the
\* limit.
C33_MessageBelowLimit ==
    /\ MessageBelowLimit
    /\ DataAppendsBelowLimit
    /\ session.state.kind = "Bdat" =>
            session.state.remaining + session.message < Limit

\* C33 witness: in State::Data the message is one byte under the limit.
C33_Witness ==
    /\ s_ret = "Ok(true)"
    /\ session.state.kind = "Data"
    /\ session.message = Limit - 1
    /\ s_tx.peak = session.message

\* A first BDAT chunk was read and answered 250 2.6.0, a second one is being
\* read and fills the message up to one byte under the limit.
C33_WitnessBdat ==
    /\ session.state.kind = "Bdat"
    /\ session.message > 0
    /\ session.state.remaining > 0
    /\ session.state.remaining + session.message = Limit - 1

\* ---- the BDAT size check and the width of the word ----

BdatLines == {u \in Lines : u.kind = "BDAT"}

\* A BDAT line handed to a session that waits for a command: the chunk is
\* admitted when the session goes to State::Bdat or has read the chunk (the
\* reply to the chunk is written, or the message has grown).
BdatAdmitted(a) ==
    \/ a.s.state.kind = "Bdat"
    \/ a.s.message > session.message
    \/ \E i \in 1..Len(a.out) : a.out[i].cmd = "BDAT"

\* C34: the BDAT size check is sound for every chunk_size the word can hold:
\* no chunk_size, those near the maximum for which the addition wraps
\* around included, passes the check or is admitted to State::Bdat when the
\* true sum of chunk_size and the buffered length is at or above the limit;
\* the chunk is refused and the session drains it in State::DataTooLarge.
C34_BdatCheckSound ==
    AwaitsCommand =>
        \A u \in BdatLines :
            LET a == ingest(session, s_spool, s_tx, <<u>>)
            IN  u.chunk + session.message >= Limit =>
                    /\ ~ChunkFits(u.chunk, session)
                    /\ ~BdatAdmitted(a)
                    /\ a.ret = "Ok(true)"
                    /\ a.s.state = StateDataTooLargeBdat(u.chunk)

\* What the code does: a chunk whose true sum with the buffered length is
\* at or above the limit is never read into the message, but when the sum
\* does not fit the word the call panics, at the addition with overflow
\* checks and in Vec::reserve, after the wrapped sum passed the check,
\* without them.
C34_NotAdmittedButPanics ==
    /\ AwaitsCommand =>
        \A u \in BdatLines :
            LET a == ingest(session, s_spool, s_tx, <<u>>)
            IN  u.chunk + session.message >= Limit =>
                    /\ ~BdatAdmitted(a)
                    /\ a.out = <<>>
                    /\ IF Overflows(u.chunk, session)
                       THEN a.ret = "panic"
                       ELSE /\ a.ret = "Ok(true)"
                            /\ a.s.state = StateDataTooLargeBdat(u.chunk)
    /\ s_ret = "panic" => session.message < Limit /\ session.state = StateNone

\* In a build without overflow checks a BDAT whose chunk_size,
\* added to the buffered length, wraps around to a sum under the limit was
\* handed to ingest; the call panicked and the session is not in State::Bdat.
C34_Witness ==
    /\ s_ret = "panic"
    /\ ~session.params.overflow_checks
    /\ session.message > 0
    /\ ChunkFits(UsizeMax, session)
    /\ Overflows(UsizeMax, session)

\* The same in a build with overflow checks.
C34_WitnessChecked ==
    /\ s_ret = "panic"
    /\ session.params.overflow_checks
    /\ Overflows(UsizeMax, session)

\* ---- one stream of bytes, split in different ways ----

\* The buffers of two lines without a STARTTLS.
SplitBuffers ==
    {buf \in Buffers :
        Len(buf) = 2 /\ \A i \in 1..Len(buf) : buf[i].kind # "STARTTLS"}

\* The replies written, as the peer reads them.
Codes(out) == [i \in 1..Len(out) |-> <<out[i].cmd, out[i].code>>]

\* The two lines handed to ingest in one call.
Together(buf) == ingest(session, s_spool, s_tx, buf)

\* The two lines handed to ingest in two calls; the second call is made if
\* the first returned Ok(true).
First(buf) == ingest(session, s_spool, s_tx, <<buf[1]>>)
Second(buf) ==
    LET a == First(buf)
    IN  IF a.ret = "Ok(true)"
        THEN LET b == ingest(a.s, a.spool, a.tx, <<buf[2]>>)
             IN  [b EXCEPT !.out = a.out \o b.out]
        ELSE a

SameOutcome(a, b) ==
    /\ Codes(a.out) = Codes(b.out)
    /\ a.s = b.s
    /\ a.ret = b.ret
    /\ a.spool = b.spool

\* C35: for a byte stream without STARTTLS the replies written and the final
\* state of the session are the same however the stream is split across
\* calls of ingest; whether a DATA payload is accepted or diverted to
\* DataTooLarge does not depend on the other bytes of the buffer.
C35_SplitInvariant ==
    s_ret = "Ok(true)" =>
        \A buf \in SplitBuffers : SameOutcome(Together(buf), Second(buf))

\* What the code does: the split makes no difference for a session that is
\* not reading a DATA payload.
C35_SplitInvariantOutsideData ==
    (s_ret = "Ok(true)" /\ session.state.kind # "Data") =>
        \A buf \in SplitBuffers : SameOutcome(Together(buf), Second(buf))

\* The end of a payload under the limit arrives with a pipelined MAIL: in
\* one buffer the payload is refused with 552 5.3.4, alone it is queued.
C35_SplitMatters ==
    /\ s_ret = "Ok(true)"
    /\ session.state.kind = "Data"
    /\ LET buf == <<Line("DOT", "", FALSE, "ok", 0, 1, RcptOk), Cmd("MAIL", "ok")>>
       IN  /\ Together(buf).out[1].code = "552 5.3.4"
           /\ Second(buf).out[1].code = "250 2.0.0"
           /\ Together(buf).spool = s_spool
           /\ Second(buf).spool = s_spool + 1

\* ---- RSET ----

RsetLine == Cmd("RSET", "ok")

\* RSET handed to a session that waits for a command: one reply, 250 2.0.0,
\* and of the session only the sender, the recipients, the buffered message
\* and the priority change.
RsetClearsTransaction ==
    AwaitsCommand =>
        LET a == ingest(session, s_spool, s_tx, <<RsetLine>>)
        IN  /\ Codes(a.out) = <<(<<"RSET", "250 2.0.0">>)>>
            /\ a.ret = "Ok(true)"
            /\ a.spool = s_spool
            /\ a.s = [session EXCEPT !.mail_from = FALSE, !.rcpt_to = <<>>,
                                     !.message = 0, !.priority = 0]

\* A MAIL that follows the RSET is accepted by a session that has said
\* HELO and, where required, has authenticated: nothing is asked again.
MailAfterRset ==
    (/\ AwaitsCommand
     /\ session.helo_domain # ""
     /\ session.params.auth_require => session.authenticated_as # "") =>
        LET a == ingest(session, s_spool, s_tx, <<RsetLine, Cmd("MAIL", "ok")>>)
        IN  Codes(a.out) = <<(<<"RSET", "250 2.0.0">>), (<<"MAIL", "250 2.1.0">>)>>

\* C40: RSET clears only the transaction (MAIL FROM, recipients, buffered
\* message, priority) and replies 250 2.0.0; the HELO domain, the
\* authenticated identity, the RCPT and AUTH error counters and the parser
\* state are unchanged, so that neither EHLO nor AUTH is needed again after
\* it and the error budgets are not reset.
C40_RsetClearsOnlyTransaction ==
    /\ RsetClearsTransaction
    /\ MailAfterRset
    /\ \A i \in 1..Len(s_out) :
        (s_out[i].cmd = "RSET" /\ i = Len(s_out) /\ s_ret = "Ok(true)") =>
            /\ s_out[i].code = "250 2.0.0"
            /\ ~session.mail_from /\ session.rcpt_to = <<>>
            /\ session.message = 0 /\ session.priority = 0
            /\ s_out[i].tx.helo => session.helo_domain # ""
            /\ s_out[i].tx.authed => session.authenticated_as # ""
            /\ s_tx.rcpt_waits = s_out[i].tx.rcpt_waits
            /\ session.rcpt_errors = s_out[i].tx.rcpt_waits

\* C40 witness: an authenticated session with a sender, a recipient and a
\* counted RCPT error sent RSET: the reply is 250 2.0.0, the transaction is
\* gone, the HELO domain, the identity and the error count are still there.
C40_Witness ==
    /\ Len(s_out) = 1
    /\ s_out[1].cmd = "RSET" /\ s_out[1].code = "250 2.0.0"
    /\ s_out[1].tx.mail /\ s_out[1].tx.rcpt /\ s_out[1].tx.authed
    /\ ~session.mail_from /\ session.rcpt_to = <<>> /\ session.priority = 0
    /\ session.helo_domain # "" /\ session.authenticated_as # ""
    /\ session.rcpt_errors > 0
    /\ session.state = StateRequest

(***************************************************************************)
(*              Queue: manager, delivery attempts, DSN, spool              *)
(***************************************************************************)

\* ---- bounds ----
MaxRetries == 1         \* temporary failures per message
MaxReloads == 1         \* restarts that reload the queue from the spool
MaxQueueTime == 2       \* the clock stops here

\* ---- configured values ----
QueueConcurrency == 1   \* the recipient-domain throttle's concurrency

\* The ids the manager assigns, in this order.
MessageIds == {1, 2}

RCPT_DSN_SENT == "RCPT_DSN_SENT"
RCPT_STATUS_CHANGED == "RCPT_STATUS_CHANGED"

Scheduled == "Scheduled"
Completed == "Completed"
TemporaryFailure == "TemporaryFailure"
PermanentFailure == "PermanentFailure"
Terminal(status) == status \in {Completed, PermanentFailure}

\* Schedule<Box<Message>>, OnHold, Event and WorkerResult
Schedule(due, inner) == [due |-> due, inner |-> inner]
OnHold(next_due, message) == [next_due |-> next_due, message |-> message]
EventQueue(schedule) ==
    [event |-> "Queue", id |-> schedule.inner, due |-> schedule.due]
EventDone == [event |-> "Done", id |-> 0, due |-> 0]
EventRetry(schedule) ==
    [event |-> "Retry", id |-> schedule.inner, due |-> schedule.due]
EventOnHold(on_hold) ==
    [event |-> "OnHold", id |-> on_hold.message, due |-> on_hold.next_due]

\* A Recipient's status and flags, in memory and on the spool.
Recipient(status, flags) == [status |-> status, flags |-> flags]
NoFile == [exists |-> FALSE, rcpt |-> Recipient(Scheduled, {})]
File(rcpt) == [exists |-> TRUE, rcpt |-> rcpt]

\* DeliveryAttempt.message is a Box<Message>: handing the message on moves
\* it out of the attempt.
KeepMessage(active, id) == active
TakeMessage(active, id) == [active EXCEPT ![id] = "none"]

\* The two steps of a DSN: the recipient's flag is set and persisted, the
\* DSN is queued.
DsnStepsQueueFirst == <<"dsn_queue", "dsn_flag">>
DsnSteps == <<"dsn_flag", "dsn_queue">>

\* ---- where a message is ----
RECURSIVE CountIn(_, _)
CountIn(seq, id) ==
    IF seq = <<>> THEN 0
    ELSE (IF Head(seq) = id THEN 1 ELSE 0) + CountIn(Tail(seq), id)

SeqMap(seq, field) == [i \in 1..Len(seq) |-> seq[i][field]]

InChannel(id) == CountIn(SeqMap(q_chan, "id"), id)
InScheduled(id) == Cardinality({s \in q_scheduled : s.inner = id})
InOnHold(id) == CountIn(SeqMap(q_on_hold, "message"), id)
InActive(id) == IF q_active[id] # "none" THEN 1 ELSE 0

\* A message the queue still has to deliver or report on.
OnSpool(id) == q_spool[id].exists

QueueInit ==
    /\ q_now = 0
    /\ q_chan = <<>>
    /\ q_scheduled = {}
    /\ q_on_hold = <<>>
    /\ q_active = [id \in MessageIds |-> "none"]
    /\ q_rcpt = [id \in MessageIds |-> Recipient(Scheduled, {})]
    /\ q_spool = [id \in MessageIds |-> NoFile]
    /\ q_dsn = [id \in MessageIds |-> 0]
    /\ q_concurrent = 0
    /\ q_permits = {}
    /\ q_count = [admitted |-> 0, retries |-> 0, reloads |-> 0]

QueueIdle ==
    /\ q_now = 0
    /\ q_chan = <<>>
    /\ q_scheduled = {}
    /\ q_on_hold = <<>>
    /\ q_active = [id \in MessageIds |-> "none"]
    /\ q_rcpt = [id \in MessageIds |-> Recipient(Scheduled, {})]
    /\ q_spool = [id \in MessageIds |-> NoFile]
    /\ q_dsn = [id \in MessageIds |-> 0]
    /\ q_concurrent = 0
    /\ q_permits = {}
    /\ q_count = [admitted |-> Cardinality(MessageIds), retries |-> MaxRetries,
                  reloads |-> MaxReloads]

\* ---- admission (the session's queue_message) ----
Admit ==
    /\ q_count.admitted < Cardinality(MessageIds)
    /\ LET id == q_count.admitted + 1
       IN  /\ q_spool' = [q_spool EXCEPT ![id] = File(Recipient(Scheduled, {}))]
           /\ q_rcpt' = [q_rcpt EXCEPT ![id] = Recipient(Scheduled, {})]
           /\ q_chan' = Append(q_chan, EventQueue(Schedule(q_now, id)))
    /\ q_count' = [q_count EXCEPT !.admitted = @ + 1]
    /\ UNCHANGED <<q_now, q_scheduled, q_on_hold, q_active, q_dsn,
                   q_concurrent, q_permits>>
    /\ UNCHANGED notQueue

\* ---- the queue manager ----
\* The manager takes the next event from its channel.
ManagerRecv ==
    /\ q_chan # <<>>
    /\ LET ev == Head(q_chan)
       IN  /\ q_chan' = Tail(q_chan)
           /\ q_active' =
                IF ev.event = "Queue" /\ ev.due <= q_now
                THEN [q_active EXCEPT ![ev.id] = "throttle"]
                ELSE q_active
           /\ q_scheduled' =
                IF \/ ev.event = "Queue" /\ ev.due > q_now
                   \/ ev.event = "Retry"
                THEN q_scheduled \cup {Schedule(ev.due, ev.id)}
                ELSE q_scheduled
           /\ q_on_hold' =
                IF ev.event = "OnHold"
                THEN Append(q_on_hold, OnHold(ev.due, ev.id))
                ELSE q_on_hold
    /\ UNCHANGED <<q_now, q_rcpt, q_spool, q_dsn, q_concurrent, q_permits,
                   q_count>>
    /\ UNCHANGED notQueue

\* The soonest-due message is due: it is popped and a DeliveryAttempt made.
ManagerDue ==
    /\ \E s \in q_scheduled :
        /\ s.due <= q_now
        /\ \A t \in q_scheduled : s.due <= t.due
        /\ q_scheduled' = q_scheduled \ {s}
        /\ q_active' = [q_active EXCEPT ![s.inner] = "throttle"]
    /\ UNCHANGED <<q_now, q_chan, q_on_hold, q_rcpt, q_spool, q_dsn,
                   q_concurrent, q_permits, q_count>>
    /\ UNCHANGED notQueue

\* Mutation: the on-hold list is emptied without scheduling its messages.
OnHoldDiscard ==
    /\ q_on_hold # <<>>
    /\ q_concurrent = 0
    /\ q_on_hold' = <<>>
    /\ UNCHANGED <<q_now, q_chan, q_scheduled, q_active, q_rcpt, q_spool,
                   q_dsn, q_concurrent, q_permits, q_count>>
    /\ UNCHANGED notQueue

\* The limiter has no permit out: the messages on hold go back to the heap,
\* due now.
OnHoldRelease ==
    /\ q_on_hold # <<>>
    /\ q_concurrent = 0
    /\ q_scheduled' = q_scheduled \cup
            {Schedule(q_now, q_on_hold[i].message) : i \in 1..Len(q_on_hold)}
    /\ q_on_hold' = <<>>
    /\ UNCHANGED <<q_now, q_chan, q_active, q_rcpt, q_spool, q_dsn,
                   q_concurrent, q_permits, q_count>>
    /\ UNCHANGED notQueue

\* ---- a delivery attempt, step by step ----
NextDsnStep(step) == IF step = DsnSteps[1] THEN DsnSteps[2] ELSE "finish"

NeedsDsn(rcpt) ==
    /\ Terminal(rcpt.status)
    /\ RCPT_STATUS_CHANGED \in rcpt.flags
    /\ RCPT_DSN_SENT \notin rcpt.flags

\* The throttle: a permit, or the message goes on hold.  try_deliver puts it
\* on the manager's list itself when the limiter is one of the sender; the
\* worker it spawned hands it back in an event when the limiter is one of
\* the recipient domain or the host.
AttemptThrottle(id) ==
    /\ q_active[id] = "throttle"
    /\ IF q_concurrent < QueueConcurrency
       THEN /\ q_concurrent' = q_concurrent + 1
            /\ q_permits' = q_permits \cup {id}
            /\ q_active' = [q_active EXCEPT ![id] = "deliver"]
            /\ UNCHANGED <<q_chan, q_on_hold>>
       ELSE /\ q_active' = TakeMessage(q_active, id)
            /\ UNCHANGED <<q_concurrent, q_permits>>
            /\ \/ /\ q_on_hold' = Append(q_on_hold, OnHold(q_now + 1, id))
                  /\ UNCHANGED q_chan
               \/ /\ q_chan' =
                        Append(q_chan, EventOnHold(OnHold(q_now + 1, id)))
                  /\ UNCHANGED q_on_hold
    /\ UNCHANGED <<q_now, q_scheduled, q_rcpt, q_spool, q_dsn, q_count>>
    /\ UNCHANGED notQueue

\* Delivery: the recipient's status changes, unless it was final already.
AttemptDeliver(id) ==
    /\ q_active[id] = "deliver"
    /\ IF Terminal(q_rcpt[id].status)
       THEN UNCHANGED <<q_rcpt, q_count>>
       ELSE \E status \in {Completed, PermanentFailure, TemporaryFailure} :
            /\ status = TemporaryFailure => q_count.retries < MaxRetries
            /\ q_rcpt' = [q_rcpt EXCEPT ![id] =
                    Recipient(status, @.flags \cup {RCPT_STATUS_CHANGED})]
            /\ q_count' = [q_count EXCEPT !.retries =
                    IF status = TemporaryFailure THEN @ + 1 ELSE @]
    /\ q_active' = [q_active EXCEPT ![id] = "save"]
    /\ UNCHANGED <<q_now, q_chan, q_scheduled, q_on_hold, q_spool, q_dsn,
                   q_concurrent, q_permits>>
    /\ UNCHANGED notQueue

\* The status changes are persisted.
AttemptSave(id) ==
    /\ q_active[id] = "save"
    /\ q_spool' = [q_spool EXCEPT ![id] = File(q_rcpt[id])]
    /\ q_active' = [q_active EXCEPT ![id] =
            IF NeedsDsn(q_rcpt[id]) THEN DsnSteps[1] ELSE "finish"]
    /\ UNCHANGED <<q_now, q_chan, q_scheduled, q_on_hold, q_rcpt, q_dsn,
                   q_concurrent, q_permits, q_count>>
    /\ UNCHANGED notQueue

\* The recipient's DSN-sent flag is set and persisted.
AttemptDsnFlag(id) ==
    /\ q_active[id] = "dsn_flag"
    /\ LET rcpt == Recipient(q_rcpt[id].status,
                             q_rcpt[id].flags \cup {RCPT_DSN_SENT})
       IN  /\ q_rcpt' = [q_rcpt EXCEPT ![id] = rcpt]
           /\ q_spool' = [q_spool EXCEPT ![id] = File(rcpt)]
    /\ q_active' = [q_active EXCEPT ![id] = NextDsnStep("dsn_flag")]
    /\ UNCHANGED <<q_now, q_chan, q_scheduled, q_on_hold, q_dsn,
                   q_concurrent, q_permits, q_count>>
    /\ UNCHANGED notQueue

\* The DSN is queued.
AttemptDsnQueue(id) ==
    /\ q_active[id] = "dsn_queue"
    /\ q_dsn' = [q_dsn EXCEPT ![id] = @ + 1]
    /\ q_active' = [q_active EXCEPT ![id] = NextDsnStep("dsn_queue")]
    /\ UNCHANGED <<q_now, q_chan, q_scheduled, q_on_hold, q_rcpt, q_spool,
                   q_concurrent, q_permits, q_count>>
    /\ UNCHANGED notQueue

\* The attempt ends: the permit is dropped; the message is retired, or
\* handed back to the manager for a retry.
AttemptFinish(id) ==
    /\ q_active[id] = "finish"
    /\ q_concurrent' = q_concurrent - 1
    /\ q_permits' = q_permits \ {id}
    /\ q_active' = TakeMessage(q_active, id)
    /\ IF Terminal(q_rcpt[id].status)
       THEN /\ q_spool' = [q_spool EXCEPT ![id] = NoFile]
            /\ q_chan' = Append(q_chan, EventDone)
       ELSE /\ q_chan' = Append(q_chan, EventRetry(Schedule(q_now + 1, id)))
            /\ UNCHANGED q_spool
    /\ UNCHANGED <<q_now, q_scheduled, q_on_hold, q_rcpt, q_dsn, q_count>>
    /\ UNCHANGED notQueue

\* ---- restart and time ----
\* The process restarts: what was in memory is gone, the messages on the
\* spool are read back and scheduled.
Reload ==
    /\ q_count.reloads < MaxReloads
    /\ q_count' = [q_count EXCEPT !.reloads = @ + 1]
    /\ q_chan' = <<>>
    /\ q_on_hold' = <<>>
    /\ q_active' = [id \in MessageIds |-> "none"]
    /\ q_concurrent' = 0
    /\ q_permits' = {}
    /\ q_rcpt' = [id \in MessageIds |-> q_spool[id].rcpt]
    /\ q_scheduled' = {Schedule(q_now, id) : id \in {i \in MessageIds : q_spool[i].exists}}
    /\ UNCHANGED <<q_now, q_spool, q_dsn>>
    /\ UNCHANGED notQueue

QueueTick ==
    /\ q_now < MaxQueueTime
    /\ q_now' = q_now + 1
    /\ UNCHANGED <<q_chan, q_scheduled, q_on_hold, q_active, q_rcpt, q_spool,
                   q_dsn, q_concurrent, q_permits, q_count>>
    /\ UNCHANGED notQueue

NextQueue ==
    \/ Admit
    \/ ManagerRecv
    \/ ManagerDue
    \/ OnHoldRelease
    \/ \E id \in MessageIds : AttemptThrottle(id)
    \/ \E id \in MessageIds : AttemptDeliver(id)
    \/ \E id \in MessageIds : AttemptSave(id)
    \/ \E id \in MessageIds : AttemptDsnFlag(id)
    \/ \E id \in MessageIds : AttemptDsnQueue(id)
    \/ \E id \in MessageIds : AttemptFinish(id)
    \/ Reload
    \/ QueueTick

\* ---- what the claims speak about ----

\* C5 (as stated): every queued message is in exactly one of the scheduled
\* heap, the on-hold list and the active delivery attempts.
C5_ExactlyOneOfThreePlaces ==
    \A id \in MessageIds :
        OnSpool(id) => InScheduled(id) + InOnHold(id) + InActive(id) = 1

\* C5 (amended): every queued message is in exactly one place, the places
\* being the scheduled heap, the on-hold list, an active delivery attempt
\* and an event travelling to the manager; a message the queue has retired
\* is in none.
C5_ExactlyOnePlace ==
    \A id \in MessageIds :
        InChannel(id) + InScheduled(id) + InOnHold(id) + InActive(id)
            = IF OnSpool(id) THEN 1 ELSE 0

\* C5 witness: one message was handed back for a retry and is scheduled,
\* the other was handed back on hold and is on the on-hold list.
C5_Witness ==
    /\ q_count.retries = 1
    /\ q_count.reloads = 0
    /\ q_on_hold # <<>>
    /\ \E s \in q_scheduled : q_rcpt[s.inner].status = TemporaryFailure

\* C6: at most one DSN is queued for a recipient's change of status, and
\* only once its DSN-sent flag is on the spool.
C6_AtMostOneDsn ==
    \A id \in MessageIds :
        /\ q_dsn[id] <= 1
        /\ q_dsn[id] = 1 /\ OnSpool(id) =>
                RCPT_DSN_SENT \in q_spool[id].rcpt.flags

\* C6 witness: a message failed temporarily, was retried, the queue was
\* reloaded from the spool with the DSN-sent flag on it, and the message
\* went through another attempt; one DSN was queued.
C6_Witness ==
    /\ q_count.retries = 1
    /\ q_count.reloads = 1
    /\ \E id \in MessageIds :
        /\ q_dsn[id] = 1
        /\ OnSpool(id)
        /\ q_active[id] = "finish"
        /\ RCPT_DSN_SENT \in q_spool[id].rcpt.flags

\* The manager's loop and the delivery tasks keep running: an attempt that
\* can take its next step takes it, and the manager releases the on-hold
\* list when it can.
QueueFairness ==
    /\ WF_vars(OnHoldRelease)
    /\ \A id \in MessageIds :
        /\ WF_vars(AttemptDeliver(id))
        /\ WF_vars(AttemptSave(id))
        /\ WF_vars(AttemptDsnFlag(id))
        /\ WF_vars(AttemptDsnQueue(id))
        /\ WF_vars(AttemptFinish(id))

MaxDomainTime == 2      \* latest due time and retry_at explored
MaxDomainRetry == 1     \* largest retry count a Domain starts with
MaxOnHoldLimiters == 2  \* longest on_hold list explored

\* Status<(), Error> of a Domain
DomainStatus(status, error) == [status |-> status, error |-> error]

\* queue::throttle::Error
ErrorConcurrency(limiter) ==
    [kind |-> "Concurrency", limiter |-> limiter, retry_at |-> 0]
ErrorRate(retry_at) == [kind |-> "Rate", limiter |-> "", retry_at |-> retry_at]
Limiters == {"sender", "rcpt"}
ThrottleErrors ==
    {ErrorConcurrency(l) : l \in Limiters}
    \cup {ErrorRate(at) : at \in 0..(MaxDomainTime + 1)}

Domain(retry, status, changed) ==
    [domain |-> "example.org", retry |-> retry, notify |-> Schedule(1, 0),
     expires |-> MaxDomainTime + 2, status |-> status, changed |-> changed]

Domains ==
    {Domain(Schedule(due, inner), status, changed) :
        due \in 0..MaxDomainTime, inner \in 0..MaxDomainRetry,
        status \in {DomainStatus(Scheduled, ""),
                    DomainStatus(TemporaryFailure, "ConnectionError"),
                    DomainStatus(TemporaryFailure, "RateLimited")},
        changed \in BOOLEAN}

\* Mutation: a throttle error also counts as a delivery attempt.
set_throttle_error_counted(domain, err, on_hold) ==
    [domain |-> [domain EXCEPT
                    !.retry.inner = @ + 1,
                    !.retry.due = IF err.kind = "Rate" THEN err.retry_at ELSE @,
                    !.status = DomainStatus(TemporaryFailure,
                                IF err.kind = "Rate" THEN "RateLimited"
                                ELSE "ConcurrencyLimited"),
                    !.changed = TRUE],
     on_hold |-> IF err.kind = "Concurrency"
                 THEN Append(on_hold, err.limiter) ELSE on_hold]

\* Domain::set_throttle_error: the Domain and on_hold after the call.
set_throttle_error(domain, err, on_hold) ==
    LET d == IF err.kind = "Concurrency"
             THEN [domain EXCEPT
                    !.status = DomainStatus(TemporaryFailure,
                                            "ConcurrencyLimited")]
             ELSE [domain EXCEPT
                    !.retry.due = err.retry_at,
                    !.status = DomainStatus(TemporaryFailure, "RateLimited")]
    IN  [domain |-> [d EXCEPT !.changed = TRUE],
         on_hold |-> IF err.kind = "Concurrency"
                     THEN Append(on_hold, err.limiter) ELSE on_hold]

NoCall == [called |-> FALSE, err |-> ErrorRate(0),
           domain |-> Domain(Schedule(0, 0), DomainStatus(Scheduled, ""), FALSE),
           on_hold |-> <<>>]

DomInit ==
    /\ dom \in Domains
    /\ dom_on_hold = <<>>
    /\ dom_call = NoCall

DomIdle ==
    /\ dom = Domain(Schedule(0, 0), DomainStatus(Scheduled, ""), FALSE)
    /\ dom_on_hold = <<>>
    /\ dom_call = NoCall

\* A delivery attempt was refused by a throttle.
SetThrottleError(err) ==
    /\ err.kind = "Concurrency" => Len(dom_on_hold) < MaxOnHoldLimiters
    /\ LET r == set_throttle_error(dom, err, dom_on_hold)
       IN  /\ dom' = r.domain
           /\ dom_on_hold' = r.on_hold
    /\ dom_call' = [called |-> TRUE, err |-> err, domain |-> dom,
                    on_hold |-> dom_on_hold]
    /\ UNCHANGED notDom

NextDomain == \E err \in ThrottleErrors : SetThrottleError(err)

\* ---- what the claims speak about ----

\* What a throttle error does besides the status: the limiter is parked
\* (concurrency) or the retry is due at retry_at (rate); nothing else of
\* the Domain moves.
ThrottleErrorReschedules ==
    /\ dom.domain = dom_call.domain.domain
    /\ dom.retry.inner = dom_call.domain.retry.inner
    /\ dom.notify = dom_call.domain.notify
    /\ dom.expires = dom_call.domain.expires
    /\ dom_call.err.kind = "Concurrency" =>
            /\ dom_on_hold = Append(dom_call.on_hold, dom_call.err.limiter)
            /\ dom.retry.due = dom_call.domain.retry.due
    /\ dom_call.err.kind = "Rate" =>
            /\ dom_on_hold = dom_call.on_hold
            /\ dom.retry.due = dom_call.err.retry_at

MaxHeapLen == 3         \* most elements on the heap
MaxHeapDue == 2         \* latest due time pushed

\* Instant::cmp
InstantCmp(a, b) == IF a < b THEN "Less" ELSE IF a = b THEN "Equal" ELSE "Greater"

\* Mutation: Schedule values compare by due time, not inverted.
CmpByDue(self, other) == InstantCmp(self.due, other.due)

\* impl Ord for Schedule<T>: cmp (partial_cmp is the same comparison)
cmp(self, other) == InstantCmp(other.due, self.due)

\* a <= b, as PartialOrd derives it from partial_cmp
le(a, b) == cmp(a, b) \in {"Less", "Equal"}

Swap(data, i, j) == [data EXCEPT ![i] = data[j], ![j] = data[i]]

\* BinaryHeap::sift_up: the element at pos rises while it is greater than
\* its parent.  Positions are 1-based: the parent of pos is pos \div 2.
RECURSIVE sift_up(_, _)
sift_up(data, pos) ==
    IF pos <= 1 THEN data
    ELSE LET parent == pos \div 2
         IN  IF le(data[pos], data[parent]) THEN data
             ELSE sift_up(Swap(data, pos, parent), parent)

\* BinaryHeap::sift_down_to_bottom: the element at pos goes down to a leaf
\* along the greater children, then rises from there.
RECURSIVE sift_down_to_bottom(_, _)
sift_down_to_bottom(data, pos) ==
    LET end == Len(data)
        child == 2 * pos
    IN  IF child + 1 <= end
        THEN LET c == IF le(data[child], data[child + 1])
                      THEN child + 1 ELSE child
             IN  sift_down_to_bottom(Swap(data, pos, c), c)
        ELSE IF child = end
        THEN sift_up(Swap(data, pos, child), child)
        ELSE sift_up(data, pos)

\* BinaryHeap::push
push(data, item) == sift_up(Append(data, item), Len(data) + 1)

\* BinaryHeap::pop on a heap that is not empty: the item and the array left.
pop(data) ==
    LET last == data[Len(data)]
        rest == SubSeq(data, 1, Len(data) - 1)
    IN  IF rest = <<>> THEN [item |-> last, data |-> <<>>]
        ELSE [item |-> data[1],
              data |-> sift_down_to_bottom([rest EXCEPT ![1] = last], 1)]

Dues(data) == {data[i].due : i \in 1..Len(data)}
MinDue(data) == CHOOSE d \in Dues(data) : \A o \in Dues(data) : d <= o

NoPop == [popped |-> FALSE, item |-> Schedule(0, 0), min_due |-> 0, len |-> 0]

HeapInit ==
    /\ heap_data = <<>>
    /\ heap_pop = NoPop

HeapIdle ==
    /\ heap_data = <<>>
    /\ heap_pop = NoPop

\* The manager schedules a message.
HeapPush(item) ==
    /\ Len(heap_data) < MaxHeapLen
    /\ heap_data' = push(heap_data, item)
    /\ heap_pop' = NoPop
    /\ UNCHANGED notHeap

\* The manager takes the next message.
HeapPop ==
    /\ heap_data # <<>>
    /\ LET r == pop(heap_data)
       IN  /\ heap_data' = r.data
           /\ heap_pop' = [popped |-> TRUE, item |-> r.item,
                           min_due |-> MinDue(heap_data),
                           len |-> Len(heap_data)]
    /\ UNCHANGED notHeap

NextHeap ==
    \/ \E due \in 0..MaxHeapDue, id \in MessageIds :
            HeapPush(Schedule(due, id))
    \/ HeapPop

\* ---- what the claims speak about ----

\* C14: the element a pop returns has the least due time of the elements
\* the heap held.
C14_PopReturnsMinimumDue ==
    heap_pop.popped => heap_pop.item.due = heap_pop.min_due

\* C14 witness: a pop on a full heap returned the element due first, and
\* the elements left are due later, at different times.
C14_Witness ==
    /\ heap_pop.popped /\ heap_pop.len = MaxHeapLen
    /\ \A i \in 1..Len(heap_data) : heap_data[i].due > heap_pop.item.due
    /\ Cardinality(Dues(heap_data)) = Len(heap_data)

(***************************************************************************)
(*                 Quotas: QuotaLimiter and UsedQuota                      *)
(***************************************************************************)

\* ---- bounds ----
MaxQuotaMessages == 2   \* QuotaLimiter.max_messages
MaxQuotaSize == 3       \* QuotaLimiter.max_size

\* The messages that ask for the quota, and Message.size of each.
QuotaMessages == {"m1", "m2", "m3"}
QuotaMessageSize == [m \in QuotaMessages |-> IF m = "m1" THEN 1 ELSE 2]

\* Where a message stands.  An acquisition adds to the messages counter,
\* then to the size counter, and takes back what it added when a counter
\* went over its limit; a drop takes the message off the messages counter,
\* then its size off the size counter.
QuotaIdle == "idle"
QuotaAddSize == "add_size"
QuotaHolding == "holding"
QuotaDropSize == "drop_size"
QuotaRollbackMessages == "rollback_messages"
QuotaRollbackSize == "rollback_size"
QuotaRefused == "452 4.3.1"

\* Mutation: an acquisition refused for its size keeps its message counted.
RollbackSizeOnly == QuotaRefused

\* What follows the rollback of the size counter.
AfterRollbackSize == QuotaRollbackMessages

QuotaInit ==
    /\ quota_size = 0
    /\ quota_messages = 0
    /\ quota_pc = [m \in QuotaMessages |-> [at |-> QuotaIdle, why |-> ""]]

QuotaUnused ==
    /\ quota_size = 0
    /\ quota_messages = 0
    /\ quota_pc = [m \in QuotaMessages |-> [at |-> QuotaIdle, why |-> ""]]

\* messages.fetch_add(1), compared with max_messages
AcquireMessages(m) ==
    /\ quota_pc[m].at = QuotaIdle
    /\ quota_messages' = quota_messages + 1
    /\ quota_pc' = [quota_pc EXCEPT ![m] =
            IF quota_messages + 1 > MaxQuotaMessages
            THEN [at |-> QuotaRollbackMessages, why |-> "messages"]
            ELSE [at |-> QuotaAddSize, why |-> ""]]
    /\ UNCHANGED quota_size
    /\ UNCHANGED notQuota

\* size.fetch_add(size), compared with max_size; within both limits the
\* UsedQuota is made.
AcquireSize(m) ==
    /\ quota_pc[m].at = QuotaAddSize
    /\ quota_size' = quota_size + QuotaMessageSize[m]
    /\ quota_pc' = [quota_pc EXCEPT ![m] =
            IF quota_size + QuotaMessageSize[m] > MaxQuotaSize
            THEN [at |-> QuotaRollbackSize, why |-> "size"]
            ELSE [at |-> QuotaHolding, why |-> ""]]
    /\ UNCHANGED quota_messages
    /\ UNCHANGED notQuota

\* size.fetch_sub(size) of a refused acquisition
RollbackSize(m) ==
    /\ quota_pc[m].at = QuotaRollbackSize
    /\ quota_size' = quota_size - QuotaMessageSize[m]
    /\ quota_pc' = [quota_pc EXCEPT ![m].at = AfterRollbackSize]
    /\ UNCHANGED quota_messages
    /\ UNCHANGED notQuota

\* messages.fetch_sub(1) of a refused acquisition; the session gets 452 4.3.1
RollbackMessages(m) ==
    /\ quota_pc[m].at = QuotaRollbackMessages
    /\ quota_messages' = quota_messages - 1
    /\ quota_pc' = [quota_pc EXCEPT ![m].at = QuotaRefused]
    /\ UNCHANGED quota_size
    /\ UNCHANGED notQuota

\* Drop for UsedQuota, first half: messages.fetch_sub(1)
DropMessages(m) ==
    /\ quota_pc[m].at = QuotaHolding
    /\ quota_messages' = quota_messages - 1
    /\ quota_pc' = [quota_pc EXCEPT ![m].at = QuotaDropSize]
    /\ UNCHANGED quota_size
    /\ UNCHANGED notQuota

\* Drop for UsedQuota, second half: size.fetch_sub(size)
DropSize(m) ==
    /\ quota_pc[m].at = QuotaDropSize
    /\ quota_size' = quota_size - QuotaMessageSize[m]
    /\ quota_pc' = [quota_pc EXCEPT ![m].at = QuotaIdle]
    /\ UNCHANGED quota_messages
    /\ UNCHANGED notQuota

\* The sender tries again after the 452.
QuotaRetry(m) ==
    /\ quota_pc[m].at = QuotaRefused
    /\ quota_pc' = [quota_pc EXCEPT ![m] = [at |-> QuotaIdle, why |-> ""]]
    /\ UNCHANGED <<quota_size, quota_messages>>
    /\ UNCHANGED notQuota

NextQuota ==
    \E m \in QuotaMessages :
        \/ AcquireMessages(m)
        \/ AcquireSize(m)
        \/ RollbackSize(m)
        \/ RollbackMessages(m)
        \/ DropMessages(m)
        \/ DropSize(m)
        \/ QuotaRetry(m)

RECURSIVE SumSizes(_)
SumSizes(S) ==
    IF S = {} THEN 0
    ELSE LET m == CHOOSE x \in S : TRUE
         IN QuotaMessageSize[m] + SumSizes(S \ {m})

\* The messages that count on the messages counter: they hold a UsedQuota,
\* or their acquisition passed the messages limit and is taking the size.
CountedMessages == {m \in QuotaMessages : quota_pc[m].at \in {QuotaAddSize, QuotaHolding}}

\* The messages that count on the size counter: they hold a UsedQuota, or
\* their drop has not yet given the size back.
CountedSizes == {m \in QuotaMessages : quota_pc[m].at \in {QuotaHolding, QuotaDropSize}}

\* Refused acquisitions that have not yet taken back what they added.
PendingMessages == {m \in QuotaMessages : quota_pc[m].at \in {QuotaRollbackMessages, QuotaRollbackSize}}
PendingSizes == {m \in QuotaMessages : quota_pc[m].at = QuotaRollbackSize}

CountersMatchHolders ==
    /\ quota_messages = Cardinality(CountedMessages)
    /\ quota_size = SumSizes(CountedSizes)

\* C15 as stated: at all times the size and messages counters equal the
\* sums contributed by the messages that hold the quota, whatever the
\* interleaving of acquisitions and drops.
C15_CountersAlwaysMatchHolders == CountersMatchHolders

\* C15, amended: the counters equal the sums contributed by the messages
\* that hold the quota plus what refused acquisitions have added and not
\* yet taken back, so they match the holders whenever no refused
\* acquisition awaits its rollback; the holders never exceed max_size or
\* max_messages, a refused acquisition (452 4.3.1) has left the counters
\* without its contribution, and the counters are zero when nobody holds
\* the quota and no acquisition is under way.
C15_CountersMatchHoldersAfterRollback ==
    /\ quota_messages = Cardinality(CountedMessages) + Cardinality(PendingMessages)
    /\ quota_size = SumSizes(CountedSizes) + SumSizes(PendingSizes)
    /\ (PendingMessages = {}) => CountersMatchHolders
    /\ Cardinality(CountedMessages) <= MaxQuotaMessages
    /\ SumSizes(CountedSizes) <= MaxQuotaSize
    /\ (\A m \in QuotaMessages : quota_pc[m].at \in {QuotaIdle, QuotaRefused})
            => quota_messages = 0 /\ quota_size = 0

\* One acquisition was refused for its size and has rolled both counters
\* back, another was refused for the message count, a third holds the quota.
C15_Witness ==
    /\ \E m \in QuotaMessages : quota_pc[m].at = QuotaRefused /\ quota_pc[m].why = "size"
    /\ \E m \in QuotaMessages : quota_pc[m].at = QuotaHolding
    /\ PendingMessages = {}
    /\ quota_messages = 1

(***************************************************************************)
(*          MX records to remote hosts: to_remote_hosts                    *)
(***************************************************************************)

\* ---- bounds ----
MaxMxRecords == 2       \* most MX records in the list
MaxExchanges == 2       \* most exchanges of one MX record
MaxMx == 3              \* largest max_mx

\* The recipient domain, the exchange names and the preferences.
MxDomain == "domain"
Exchanges == {"mx1", "mx2", "."}
Preferences == {0, 10}

\* mail_auth::MX { exchanges, preference }
MX(exchanges, preference) == [exchanges |-> exchanges, preference |-> preference]

\* Sequences without repetition over S, of length n.
DistinctSeqs(S, n) ==
    {s \in [1..n -> S] : \A i, j \in 1..n : i # j => s[i] # s[j]}

MxRecords ==
    {MX(e, p) : e \in UNION {DistinctSeqs(Exchanges, n) : n \in 0..MaxExchanges},
                p \in Preferences}

MxLists == UNION {[1..n -> MxRecords] : n \in 0..MaxMxRecords}

\* slice.shuffle(..): every order of the exchanges can come out.
Shuffles(exchanges) ==
    {[i \in 1..Len(exchanges) |-> exchanges[p[i]]] :
        p \in DistinctSeqs(1..Len(exchanges), Len(exchanges))}

\* Option<Vec<RemoteHost>>
NoHosts == [ret |-> "None", hosts |-> <<>>]
SomeHosts(hosts) == [ret |-> "Some", hosts |-> hosts]

\* Before the call there is no result.
NotCalled == [ret |-> "pending", hosts |-> <<>>]

\* remote_hosts.len() == max_mx, asked after each push
Reached(remote_hosts, max_mx) == Len(remote_hosts) = max_mx

\* The inner loop over a shuffled slice: pushes until the slice ends or the
\* number of hosts is max_mx (break 'outer).
RECURSIVE PushSlice(_, _, _)
PushSlice(remote_hosts, slice, max_mx) ==
    IF slice = <<>> THEN [hosts |-> remote_hosts, stop |-> FALSE]
    ELSE LET pushed == Append(remote_hosts, Head(slice))
         IN  IF Reached(pushed, max_mx)
             THEN [hosts |-> pushed, stop |-> TRUE]
             ELSE PushSlice(pushed, Tail(slice), max_mx)

\* Mutation: any single "." exchange counts as a null MX.
IsNullMxAnyPreference(mx) ==
    Len(mx.exchanges) = 1 /\ mx.exchanges[1] = "."

\* Check for Null MX
IsNullMx(mx) ==
    Len(mx.exchanges) = 1 /\ mx.preference = 0 /\ mx.exchanges[1] = "."

\* The loop over the MX records; the set of results the shuffles allow.
RECURSIVE ScanMx(_, _, _)
ScanMx(mxs, remote_hosts, max_mx) ==
    IF mxs = <<>> THEN {SomeHosts(remote_hosts)}
    ELSE LET mx == Head(mxs)
         IN
         IF Len(mx.exchanges) > 1
         THEN UNION {
                LET r == PushSlice(remote_hosts, slice, max_mx)
                IN  IF r.stop THEN {SomeHosts(r.hosts)}
                    ELSE ScanMx(Tail(mxs), r.hosts, max_mx)
                : slice \in Shuffles(mx.exchanges)}
         ELSE IF Len(mx.exchanges) = 1
         THEN IF IsNullMx(mx) THEN {NoHosts}
              ELSE LET pushed == Append(remote_hosts, mx.exchanges[1])
                   IN  IF Reached(pushed, max_mx)
                       THEN {SomeHosts(pushed)}
                       ELSE ScanMx(Tail(mxs), pushed, max_mx)
         ELSE ScanMx(Tail(mxs), remote_hosts, max_mx)

\* impl ToRemoteHost for Vec<MX>
to_remote_hosts(self, domain, max_mx) ==
    IF self # <<>>
    THEN ScanMx(self, <<>>, max_mx)
    ELSE {SomeHosts(<<domain>>)}

MxInit ==
    /\ mx_list \in MxLists
    /\ mx_max \in 0..MaxMx
    /\ mx_hosts = NotCalled

MxIdle ==
    /\ mx_list = <<>>
    /\ mx_max = 0
    /\ mx_hosts = NotCalled

\* The delivery attempt turns the MX records it resolved into hosts.
ToRemoteHosts ==
    /\ mx_hosts = NotCalled
    /\ mx_hosts' \in to_remote_hosts(mx_list, MxDomain, mx_max)
    /\ UNCHANGED <<mx_list, mx_max>>
    /\ UNCHANGED notMx

NextMx == ToRemoteHosts

\* ---- claims about to_remote_hosts ----

MxCalled == mx_hosts # NotCalled

\* An explicit null MX: preference 0 and the single exchange ".".
ExplicitNullMx(i) ==
    mx_list[i].preference = 0 /\ mx_list[i].exchanges = <<".">>

\* The number of exchanges of the records before record i.
RECURSIVE ExchangesBefore(_)
ExchangesBefore(i) ==
    IF i <= 1 THEN 0
    ELSE ExchangesBefore(i - 1) + Len(mx_list[i - 1].exchanges)

\* The scan gets to record i: max_mx hosts were not collected before it.
MxScanReaches(i) == mx_max = 0 \/ ExchangesBefore(i) < mx_max

ImplicitMx ==
    mx_list = <<>> => mx_hosts = SomeHosts(<<MxDomain>>)

C21_WitnessImplicit ==
    MxCalled /\ mx_list = <<>> /\ mx_hosts = SomeHosts(<<MxDomain>>)

\* Position of the first record of mx_list that has host h among its
\* exchanges (0 when none has).
RECURSIVE RecordOf(_, _)
RecordOf(h, i) ==
    IF i > Len(mx_list) THEN 0
    ELSE IF \E k \in 1..Len(mx_list[i].exchanges) : mx_list[i].exchanges[k] = h
         THEN i
         ELSE RecordOf(h, i + 1)

\* Every record of mx_list has its own exchanges.
DisjointRecords ==
    \A i, j \in 1..Len(mx_list) : \A k \in 1..Len(mx_list[i].exchanges) :
        i # j => RecordOf(mx_list[i].exchanges[k], j) # j

\* C22 as stated, for a non-empty MX list: at most max_mx hosts are
\* returned, every returned host is an exchange of the input, and the hosts
\* of an earlier MX record precede those of a later record.
C22_AtMostMaxMxHosts ==
    (MxCalled /\ mx_list # <<>> /\ mx_hosts.ret = "Some") =>
        /\ Len(mx_hosts.hosts) <= mx_max
        /\ \A k \in 1..Len(mx_hosts.hosts) : RecordOf(mx_hosts.hosts[k], 1) > 0
        /\ DisjointRecords =>
              \A k, l \in 1..Len(mx_hosts.hosts) :
                  k < l => RecordOf(mx_hosts.hosts[k], 1) <= RecordOf(mx_hosts.hosts[l], 1)

\* C22 without the bound: every returned host is an exchange of the input
\* and the hosts come in the order of their records.
C22_HostsInRecordOrder ==
    (MxCalled /\ mx_list # <<>> /\ mx_hosts.ret = "Some") =>
        /\ \A k \in 1..Len(mx_hosts.hosts) : RecordOf(mx_hosts.hosts[k], 1) > 0
        /\ DisjointRecords =>
              \A k, l \in 1..Len(mx_hosts.hosts) :
                  k < l => RecordOf(mx_hosts.hosts[k], 1) <= RecordOf(mx_hosts.hosts[l], 1)

\* C22 with a positive bound: at most max_mx hosts come back.
C22_BoundedWhenPositive ==
    (MxCalled /\ mx_list # <<>> /\ mx_max > 0 /\ mx_hosts.ret = "Some") =>
        Len(mx_hosts.hosts) <= mx_max

(***************************************************************************)
(*     Instants saved as UNIX timestamps: instant_to_timestamp, to_instant *)
(***************************************************************************)

\* ---- bounds ----
TicksPerSecond == 3     \* clock ticks in a second (the sub-second part)
MaxClock == 9           \* last tick of the monotonic clock
MaxInstant == 12        \* latest Instant that is saved

\* Duration::as_secs(): whole seconds of a number of ticks
as_secs(ticks) == ticks \div TicksPerSecond

\* Duration::from_secs(secs), in ticks
from_secs(secs) == secs * TicksPerSecond

\* SystemTime::now().duration_since(SystemTime::UNIX_EPOCH).map_or(0, |d| d.as_secs())
\* when the monotonic clock shows instant
unix_secs(instant) == as_secs(instant + ts_wall)

\* time.checked_duration_since(now).map_or(0, |d| d.as_secs())
checked_secs_since(time, now) == IF time >= now THEN as_secs(time - now) ELSE 0

\* Mutation: the seconds until the instant are rounded up.
instant_to_timestamp_ceil(now, time) ==
    unix_secs(now) + (IF time >= now THEN as_secs(time - now + TicksPerSecond - 1) ELSE 0)

\* instant_to_timestamp(now, time), called when the clock shows now
instant_to_timestamp(now, time) ==
    unix_secs(now) + checked_secs_since(time, now)

\* impl InstantFromTimestamp for u64: to_instant(), called when the clock
\* shows now
to_instant(timestamp, now) ==
    LET current_timestamp == unix_secs(now)
    IN  IF timestamp > current_timestamp
        THEN now + from_secs(timestamp - current_timestamp)
        ELSE now

TsInit ==
    /\ ts_clock = 0
    /\ ts_wall \in 0..(TicksPerSecond - 1)
    /\ ts_time \in 0..MaxInstant
    /\ ts_saved = -1
    /\ ts_stamp = -1
    /\ ts_back = -1
    /\ ts_loaded = -1

TsIdle ==
    /\ ts_clock = 0
    /\ ts_wall = 0
    /\ ts_time = 0
    /\ ts_saved = -1
    /\ ts_stamp = -1
    /\ ts_back = -1
    /\ ts_loaded = -1

\* Time passes.
TsTick ==
    /\ ts_clock < MaxClock
    /\ ts_clock' = ts_clock + 1
    /\ UNCHANGED <<ts_wall, ts_time, ts_saved, ts_stamp, ts_back, ts_loaded>>
    /\ UNCHANGED notTs

\* The Instant is written as a timestamp.
TsSave ==
    /\ ts_stamp = -1
    /\ ts_stamp' = instant_to_timestamp(ts_clock, ts_time)
    /\ ts_saved' = ts_clock
    /\ UNCHANGED <<ts_clock, ts_wall, ts_time, ts_back, ts_loaded>>
    /\ UNCHANGED notTs

\* The timestamp is read back as an Instant.
TsLoad ==
    /\ ts_stamp # -1
    /\ ts_back = -1
    /\ ts_back' = to_instant(ts_stamp, ts_clock)
    /\ ts_loaded' = ts_clock
    /\ UNCHANGED <<ts_clock, ts_wall, ts_time, ts_saved, ts_stamp>>
    /\ UNCHANGED notTs

NextTs == TsTick \/ TsSave \/ TsLoad

\* ---- claims about the round trip ----

TsRoundTrip == ts_back # -1

\* C23 as stated: a future Instant comes back within one second of the
\* original, and an Instant that is not in the future comes back as the
\* current instant.
C23_WithinOneSecond ==
    TsRoundTrip =>
        /\ (ts_time > ts_saved /\ ts_time > ts_loaded) =>
              /\ ts_back - ts_time <= TicksPerSecond
              /\ ts_time - ts_back <= TicksPerSecond
        /\ ts_time <= ts_saved => ts_back = ts_loaded

\* C23 (amended): an Instant still in the future at the load comes back less
\* than one second later or less than two seconds earlier than the original;
\* an Instant that is not in the future at the load comes back as the
\* current instant; the Instant read back is never in the past.
C23_WithinTwoSeconds ==
    TsRoundTrip =>
        /\ ts_time > ts_loaded =>
              /\ ts_back - ts_time < TicksPerSecond
              /\ ts_time - ts_back < 2 * TicksPerSecond
        /\ ts_time <= ts_loaded => ts_back = ts_loaded
        /\ ts_back >= ts_loaded

\* A future Instant came back more than a second early.
C23_Witness ==
    /\ TsRoundTrip
    /\ ts_time > ts_loaded
    /\ ts_time - ts_back > TicksPerSecond
    /\ ts_back > ts_loaded

\* A future Instant came back late.
C23_WitnessLate ==
    TsRoundTrip /\ ts_time > ts_loaded /\ ts_back > ts_time

(***************************************************************************)
(*          DKIM failure reports: Session::send_dkim_report                *)
(***************************************************************************)

\* ---- bounds ----
MaxReportRate == 2      \* largest rate.requests
MaxReportTime == 3      \* last tick of the clock
MaxReports == 4         \* most report messages queued

ReportRcpts == {"dkim-failures@example.com", "other@example.com"}

\* DkimOutput: its result and the signature it carries, if any.
DkimOutputs ==
    {[result |-> "fail", signature |-> "d=example.com"],
     [result |-> "fail", signature |-> "none"],
     [result |-> "neutral", signature |-> "none"]}

\* The key of a recipient's bucket for one kind of report.
ReportKey(rcpt, rtype) == <<rcpt, rtype>>
ReportKeys == {ReportKey(rcpt, "dkim") : rcpt \in ReportRcpts}

NoBucket == [present |-> FALSE, tokens |-> 0, last |-> 0]

\* Session::throttle_rcpt(rcpt, rate, rtype): asks the bucket of
\* (rcpt, rtype), made full on first use, for one token.
throttle_rcpt(rcpt, requests, rtype) ==
    LET b == rp_bucket[ReportKey(rcpt, rtype)]
        r == IF b.present THEN [tokens |-> b.tokens, last |-> b.last]
             ELSE RateLimiterNew(requests, rp_now)
    IN  RateIsAllowed(r, requests, rp_now)

\* Mutation: a report is generated for any DKIM output.
AnyDkimOutput(output) == TRUE

\* if let Some(signature) = output.signature()
HasSignature(output) == output.signature # "none"

RpInit ==
    /\ rp_rate \in 1..MaxReportRate
    /\ rp_now = 0
    /\ rp_bucket = [k \in ReportKeys |-> NoBucket]
    /\ rp_queued = <<>>
    /\ rp_last = [rcpt |-> "", output |-> "none", asked |-> FALSE, admitted |-> FALSE]

RpIdle ==
    /\ rp_rate = 0
    /\ rp_now = 0
    /\ rp_bucket = [k \in ReportKeys |-> NoBucket]
    /\ rp_queued = <<>>
    /\ rp_last = [rcpt |-> "", output |-> "none", asked |-> FALSE, admitted |-> FALSE]

\* send_dkim_report without a signature in the output: returns at once.
SendDkimReportNoSignature(rcpt, output) ==
    /\ ~HasSignature(output)
    /\ rp_last' = [rcpt |-> rcpt, output |-> output.signature,
                   asked |-> FALSE, admitted |-> FALSE]
    /\ UNCHANGED <<rp_rate, rp_now, rp_bucket, rp_queued>>

\* send_dkim_report with a signature: the recipient's bucket is asked, and
\* the report is written and queued when it admits.
SendDkimReportThrottled(rcpt, output) ==
    /\ HasSignature(output)
    /\ LET a == throttle_rcpt(rcpt, rp_rate, "dkim")
       IN  /\ rp_bucket' = [rp_bucket EXCEPT ![ReportKey(rcpt, "dkim")] =
                               [present |-> TRUE, tokens |-> a.tokens, last |-> a.last]]
           /\ rp_queued' = IF a.ok
                           THEN Append(rp_queued, [rcpt |-> rcpt, at |-> rp_now])
                           ELSE rp_queued
           /\ rp_last' = [rcpt |-> rcpt, output |-> output.signature,
                          asked |-> TRUE, admitted |-> a.ok]
    /\ UNCHANGED <<rp_rate, rp_now>>

SendDkimReport ==
    /\ Len(rp_queued) < MaxReports
    /\ \E rcpt \in ReportRcpts, output \in DkimOutputs :
           \/ SendDkimReportNoSignature(rcpt, output)
           \/ SendDkimReportThrottled(rcpt, output)
    /\ UNCHANGED notRp

RpTick ==
    /\ rp_now < MaxReportTime
    /\ rp_now' = rp_now + 1
    /\ UNCHANGED <<rp_rate, rp_bucket, rp_queued, rp_last>>
    /\ UNCHANGED notRp

NextRp == SendDkimReport \/ RpTick

\* ---- claims about DKIM failure reports ----

\* The reports queued for rcpt at the len ticks from t on.
RECURSIVE ReportsIn(_, _, _, _)
ReportsIn(i, rcpt, t, len) ==
    IF i = 0 THEN 0
    ELSE ReportsIn(i - 1, rcpt, t, len) +
         (IF rp_queued[i].rcpt = rcpt /\ rp_queued[i].at >= t /\ rp_queued[i].at < t + len
          THEN 1 ELSE 0)

\* A step queues a report only for an output with a signature that the
\* recipient's bucket admitted, and queues that one report; a refused call
\* queues nothing.
QueuedOnlyWhenAdmitted ==
    [][/\ rp_queued' # rp_queued =>
             /\ rp_last'.output # "none"
             /\ rp_last'.admitted
             /\ rp_queued' = Append(rp_queued, [rcpt |-> rp_last'.rcpt, at |-> rp_now])
       /\ (rp_last' # rp_last /\ ~rp_last'.admitted) => rp_queued' = rp_queued
       /\ (rp_last' # rp_last /\ rp_last'.output = "none") => rp_bucket' = rp_bucket]_vars

\* C24 as stated: a report is queued only for a DKIM output with a signature
\* that the bucket of (recipient, "dkim") admitted, a refused report is not
\* queued, and at most rate.requests reports are queued for one recipient in
\* any period.
C24_AtMostRatePerPeriod ==
    /\ QueuedOnlyWhenAdmitted
    /\ [](\A rcpt \in ReportRcpts : \A t \in 0..MaxReportTime :
             ReportsIn(Len(rp_queued), rcpt, t, TicksPerPeriod) <= rp_rate)

\* C24 (amended): a report is queued only for a DKIM output with a signature
\* that the bucket of (recipient, "dkim") admitted, a refused report is not
\* queued, and at most twice rate.requests reports are queued for one
\* recipient in any window of one period, end points included.
C24_AtMostTwiceRatePerPeriod ==
    /\ QueuedOnlyWhenAdmitted
    /\ [](\A rcpt \in ReportRcpts : \A t \in 0..MaxReportTime :
             ReportsIn(Len(rp_queued), rcpt, t, TicksPerPeriod + 1) <= 2 * rp_rate)

\* A report was queued for a recipient, and the next one for the same
\* recipient was refused and not queued.
C24_Witness ==
    /\ rp_last.asked /\ ~rp_last.admitted
    /\ Len(rp_queued) = rp_rate
    /\ \A i \in 1..Len(rp_queued) :
           rp_queued[i] = [rcpt |-> rp_last.rcpt, at |-> rp_now]

(***************************************************************************)
(*       Report management: /report/list, /report/status, /report/cancel   *)
(***************************************************************************)

\* ---- bounds ----
MaxIds == 2             \* most ids in one request

ReportDomains == {"foobar.org", "foobar.net"}

\* ReportKey = ReportType<ReportPolicy<String>, String>
Dmarc(domain, policy) == [type |-> "dmarc", domain |-> domain, policy |-> policy]
Tls(domain) == [type |-> "tls", domain |-> domain, policy |-> ""]

\* Policy fingerprints, written as decimal numbers.
Policies == {"7"}

\* Two DMARC and two TLS reports across two domains.
ReportKeysAll ==
    {Dmarc(d, "7") : d \in ReportDomains} \cup {Tls(d) : d \in ReportDomains}

\* impl Display for ReportKey: "d!{domain}!{policy}" or "t!{domain}", as
\* the parts between the '!'.
ReportKeyDisplay(key) ==
    IF key.type = "dmarc" THEN <<"d", key.domain, key.policy>>
    ELSE <<"t", key.domain>>

\* The ids a client can send: those of reports, and a malformed one.
IdInputs ==
    {ReportKeyDisplay(k) : k \in ReportKeysAll} \cup {<<"d", "foobar.org">>}

\* parse_report_ids for one id: the key it names, or an error.
parse_report_id(id) ==
    IF id[1] = "d" /\ Len(id) >= 2 /\ id[2] # ""
    THEN IF Len(id) >= 3 /\ id[3] \in Policies
         THEN [ok |-> TRUE, key |-> Dmarc(id[2], id[3])]
         ELSE [ok |-> FALSE, key |-> Tls("")]
    ELSE IF id[1] = "t" /\ Len(id) >= 2 /\ id[2] # ""
    THEN [ok |-> TRUE, key |-> Tls(id[2])]
    ELSE [ok |-> FALSE, key |-> Tls("")]

\* parse_report_ids: every id parses, or the request is refused.
parse_report_ids(ids) ==
    [ok |-> \A i \in 1..Len(ids) : parse_report_id(ids[i]).ok,
     keys |-> [i \in 1..Len(ids) |-> parse_report_id(ids[i]).key]]

\* The absent query parameter.
Absent == "-"

\* Mutation: any report type asked for is taken as dmarc.
ListTypeAlwaysDmarc(value) ==
    IF value = Absent THEN [ok |-> TRUE, type_ |-> Absent]
    ELSE [ok |-> TRUE, type_ |-> "dmarc"]

\* parse_request, report list: the "type" parameter.
ListType(value) ==
    IF value = Absent THEN [ok |-> TRUE, type_ |-> Absent]
    ELSE IF value \in {"dmarc", "tls"} THEN [ok |-> TRUE, type_ |-> value]
    ELSE [ok |-> FALSE, type_ |-> Absent]

\* The scheduler's answer to ReportRequest::List.
SchedulerList(type_, domain) ==
    {ReportKeyDisplay(k) :
        k \in {r \in mg_reports : /\ type_ # Absent => r.type = type_
                                  /\ domain # Absent => r.domain = domain}}

\* impl From<(&ReportKey, &ReportValue)> for Report
Report(key) == [type_ |-> key.type, domain |-> key.domain]
Null == [type_ |-> "null", domain |-> ""]

\* The scheduler's answer to ReportRequest::Status.
SchedulerStatus(report_ids) ==
    [i \in 1..Len(report_ids) |->
        IF report_ids[i] \in mg_reports THEN Report(report_ids[i]) ELSE Null]

\* The scheduler's answer to ReportRequest::Cancel: the ids are removed one
\* after the other.
RECURSIVE SchedulerCancel(_, _, _)
SchedulerCancel(reports, report_ids, result) ==
    IF report_ids = <<>> THEN [reports |-> reports, result |-> result]
    ELSE SchedulerCancel(reports \ {Head(report_ids)}, Tail(report_ids),
                         Append(result, Head(report_ids) \in reports))

\* A request and its response: list holds the ids of a List response,
\* reports the values of a Status response, data those of a Cancel response.
Request(op, type_, domain, ids, status, list, reports, data) ==
    [op |-> op, type_ |-> type_, domain |-> domain, ids |-> ids,
     status |-> status, list |-> list, reports |-> reports, data |-> data]

NoRequest == Request("none", Absent, Absent, <<>>, "", {}, <<>>, <<>>)

MgInit ==
    /\ mg_scheduled = ReportKeysAll
    /\ mg_reports = mg_scheduled
    /\ mg_cancelled = {}
    /\ mg_last = NoRequest

MgIdle ==
    /\ mg_scheduled = {}
    /\ mg_reports = {}
    /\ mg_cancelled = {}
    /\ mg_last = NoRequest

IdLists == UNION {[1..n -> IdInputs] : n \in 1..MaxIds}

\* GET /report/list?type=..&domain=..
MgList ==
    /\ \E qtype \in {Absent, "dmarc", "tls", "spf"},
          qdomain \in {Absent, "foobar.org", "foobar.net", "example.org"} :
           LET t == ListType(qtype)
           IN  mg_last' =
                   IF t.ok
                   THEN Request("list", qtype, qdomain, <<>>, "OK",
                                SchedulerList(t.type_, qdomain), <<>>, <<>>)
                   ELSE Request("list", qtype, qdomain, <<>>, "BAD_REQUEST", {}, <<>>, <<>>)
    /\ UNCHANGED <<mg_scheduled, mg_reports, mg_cancelled>>
    /\ UNCHANGED notMg

\* GET /report/status?id=..
MgStatus ==
    /\ \E ids \in IdLists :
           LET p == parse_report_ids(ids)
           IN  mg_last' =
                   IF p.ok
                   THEN Request("status", Absent, Absent, ids, "OK", {}, SchedulerStatus(p.keys), <<>>)
                   ELSE Request("status", Absent, Absent, ids, "BAD_REQUEST", {}, <<>>, <<>>)
    /\ UNCHANGED <<mg_scheduled, mg_reports, mg_cancelled>>
    /\ UNCHANGED notMg

\* GET /report/cancel?id=..
MgCancel ==
    /\ \E ids \in IdLists :
           LET p == parse_report_ids(ids)
               c == SchedulerCancel(mg_reports, p.keys, <<>>)
           IN  IF p.ok
               THEN /\ mg_last' = Request("cancel", Absent, Absent, ids, "OK", {}, <<>>, c.result)
                    /\ mg_reports' = c.reports
                    /\ mg_cancelled' = mg_cancelled \cup (mg_reports \ c.reports)
               ELSE /\ mg_last' = Request("cancel", Absent, Absent, ids, "BAD_REQUEST", {}, <<>>, <<>>)
                    /\ UNCHANGED <<mg_reports, mg_cancelled>>
    /\ UNCHANGED mg_scheduled
    /\ UNCHANGED notMg

NextMg == MgList \/ MgStatus \/ MgCancel

\* ---- claims about report management ----

\* The last request was answered (not refused as a bad request).
Answered(op) == mg_last.op = op /\ mg_last.status = "OK"

\* The report an id of the last request names, when the id is the id of a
\* report.
Names(id, k) == id = ReportKeyDisplay(k)

\* List answers with exactly the ids of the reports held that match every
\* filter given.
ListIsExact ==
    Answered("list") =>
        \A k \in ReportKeysAll :
            ReportKeyDisplay(k) \in mg_last.list <=>
                /\ k \in mg_reports
                /\ mg_last.type_ # Absent => k.type = mg_last.type_
                /\ mg_last.domain # Absent => k.domain = mg_last.domain

\* List answers with ids of reports only.
ListOnlyIds ==
    Answered("list") =>
        mg_last.list \subseteq {ReportKeyDisplay(k) : k \in ReportKeysAll}

\* Status answers null exactly for the ids of reports not held.
StatusIsExact ==
    Answered("status") =>
        \A i \in 1..Len(mg_last.ids) : \A k \in ReportKeysAll :
            Names(mg_last.ids[i], k) =>
                mg_last.reports[i] = (IF k \in mg_reports THEN Report(k) ELSE Null)

\* A cancelled report is held no more, and every other report still is.
CancelledAreGone == mg_reports = mg_scheduled \ mg_cancelled

\* Cancel answers true for the id of a report held and removes the reports
\* named and no other.
CancelStep ==
    [][(mg_last' # mg_last /\ mg_last'.op = "cancel" /\ mg_last'.status = "OK") =>
          /\ \A i \in 1..Len(mg_last'.ids) : \A k \in ReportKeysAll :
                 (Names(mg_last'.ids[i], k) /\ k \in mg_reports
                      /\ \A j \in 1..(i - 1) : mg_last'.ids[j] # mg_last'.ids[i])
                     => (mg_last'.data[i] /\ k \notin mg_reports')
          /\ \A k \in mg_reports \ mg_reports' :
                 \E i \in 1..Len(mg_last'.ids) : Names(mg_last'.ids[i], k)
          /\ mg_reports' \subseteq mg_reports]_vars

\* C25: List returns exactly the ids of the scheduled reports that match
\* every given filter; Cancel of a scheduled id returns true and removes
\* exactly that report; afterwards List omits it and Status returns null for
\* it, while every other report stays listed with a non-null status.
C25_ListStatusCancel ==
    /\ [](ListIsExact /\ ListOnlyIds /\ StatusIsExact /\ CancelledAreGone)
    /\ CancelStep

\* After a cancel, a filtered List answered with a report that is left
\* while a cancelled one that matches the filter is missing.
C25_Witness ==
    /\ Answered("list")
    /\ mg_last.type_ = "dmarc"
    /\ mg_last.list = {ReportKeyDisplay(Dmarc("foobar.net", "7"))}
    /\ Dmarc("foobar.org", "7") \in mg_cancelled
    /\ Tls("foobar.org") \in mg_reports

\* After a cancel, Status answered null for the cancelled report and with
\* the report for another.
C25_WitnessStatus ==
    /\ Answered("status")
    /\ Len(mg_last.ids) = 2
    /\ mg_last.reports[1] = Null
    /\ mg_last.reports[2] # Null
    /\ mg_cancelled # {}

(***************************************************************************)
(*        Duration values of the configuration: ParseValue for Duration    *)
(***************************************************************************)

\* ---- bounds ----
MaxDurationLen == 3     \* most characters of a value

Digits == {"0", "5"}
DurationChars == Digits \cup {"d", "h", "m", "s", "D", "x"}

DurationValues == UNION {[1..n -> DurationChars] : n \in 0..MaxDurationLen}

\* char::to_ascii_uppercase
ToAsciiUppercase(ch) ==
    CASE ch = "d" -> "D"
      [] ch = "h" -> "H"
      [] ch = "m" -> "M"
      [] ch = "s" -> "S"
      [] ch = "x" -> "X"
      [] OTHER -> ch

\* str::to_ascii_uppercase
to_ascii_uppercase(value) == [i \in 1..Len(value) |-> ToAsciiUppercase(value[i])]

\* str::strip_prefix(prefix): the rest of the string when it starts with
\* prefix.
strip_prefix(str, prefix) ==
    IF Len(str) >= Len(prefix) /\ SubSeq(str, 1, Len(prefix)) = prefix
    THEN [some |-> TRUE, rest |-> SubSeq(str, Len(prefix) + 1, Len(str))]
    ELSE [some |-> FALSE, rest |-> <<>>]

DigitValue(ch) == IF ch = "5" THEN 5 ELSE 0

\* str::parse::<u64>(): a non-empty string of digits, read in base ten.
RECURSIVE DecimalValue(_)
DecimalValue(num) ==
    IF num = <<>> THEN 0
    ELSE 10 * DecimalValue(SubSeq(num, 1, Len(num) - 1)) + DigitValue(num[Len(num)])

parse_u64(num) ==
    IF num # <<>> /\ \A i \in 1..Len(num) : num[i] \in Digits
    THEN [ok |-> TRUE, v |-> DecimalValue(num)]
    ELSE [ok |-> FALSE, v |-> 0]

\* Milliseconds in a second, a minute, an hour and a day.
MsPerSecond == 1000
MsPerMinute == 60 * MsPerSecond
MsPerHour == 60 * MsPerMinute
MsPerDay == 24 * MsPerHour

DurationErr == [ok |-> FALSE, millis |-> 0]
DurationOk(millis) == [ok |-> TRUE, millis |-> millis]

\* impl ParseValue for Duration: parse_value(key, value)
parse_duration(value) ==
    LET duration == to_ascii_uppercase(value)
        split ==
            IF strip_prefix(duration, <<"d">>).some
            THEN <<strip_prefix(duration, <<"d">>).rest, MsPerDay>>
            ELSE IF strip_prefix(duration, <<"h">>).some
            THEN <<strip_prefix(duration, <<"h">>).rest, MsPerHour>>
            ELSE IF strip_prefix(duration, <<"m">>).some
            THEN <<strip_prefix(duration, <<"m">>).rest, MsPerMinute>>
            ELSE IF strip_prefix(duration, <<"s">>).some
            THEN <<strip_prefix(duration, <<"s">>).rest, MsPerSecond>>
            ELSE IF strip_prefix(duration, <<"m", "s">>).some
            THEN <<strip_prefix(duration, <<"m", "s">>).rest, 1>>
            ELSE <<duration, 1>>
        num == parse_u64(split[1])
    IN  IF num.ok /\ num.v > 0
        THEN DurationOk(num.v * split[2])
        ELSE DurationErr

NotParsed == [ok |-> FALSE, millis |-> -1]

DuInit ==
    /\ du_value \in DurationValues
    /\ du_result = NotParsed

DuIdle ==
    /\ du_value = <<>>
    /\ du_result = NotParsed

\* The configuration value is parsed.
ParseDuration ==
    /\ du_result = NotParsed
    /\ du_result' = parse_duration(du_value)
    /\ UNCHANGED du_value
    /\ UNCHANGED notDu

NextDu == ParseDuration

\* ---- claims about duration values ----

DuParsed == du_result # NotParsed

\* The value is the digits num followed by suffix.
DuIs(num, suffix) == du_value = num \o suffix

\* The numbers a value can start with.
DuNumbers == UNION {[1..n -> Digits] : n \in 1..MaxDurationLen}

\* The suffixes and the milliseconds of their units.
DuSuffixes ==
    {<<<<"d">>, MsPerDay>>, <<<<"h">>, MsPerHour>>, <<<<"m">>, MsPerMinute>>,
     <<<<"s">>, MsPerSecond>>, <<<<"m", "s">>, 1>>}

\* C27 as stated: a positive integer N followed by d, h, m, s or ms yields N
\* days, hours, minutes, seconds or milliseconds, and a zero or non-numeric
\* value is rejected with an error.
C27_ParsedBySuffix ==
    DuParsed =>
        \A num \in DuNumbers : \A u \in DuSuffixes :
            DuIs(num, u[1]) =>
                IF DecimalValue(num) > 0
                THEN /\ du_result.ok
                     /\ du_result.millis \div u[2] = DecimalValue(num)
                     /\ du_result.millis % u[2] = 0
                ELSE du_result = DurationErr

\* What the code does: a value is accepted only when it is all digits and
\* not zero, and then yields that many milliseconds.
C27_OnlyPlainNumbers ==
    DuParsed =>
        /\ du_result.ok <=> (\E num \in DuNumbers : du_value = num /\ DecimalValue(num) > 0)
        /\ du_result.ok => du_result.millis = DecimalValue(du_value)

\* A value with a suffix was rejected.
C27_SuffixRejected ==
    DuParsed /\ du_value = <<"5", "m", "s">> /\ du_result = DurationErr

(***************************************************************************)
(*        Remote lookups: RemoteHost::run and LookupChannel::lookup        *)
(***************************************************************************)

\* ---- bounds ----
MaxConcurrent == 1      \* the greatest max_concurrent
MaxLookups == 2         \* lookups submitted

LookupIds == 1..MaxLookups
LookupItems == {"x", "y"}

\* The item a lookup asks for: the first two lookups ask for the same one.
ItemOf(id) == IF id <= 2 THEN "x" ELSE "y"

\* ---- Event ----
LkEvent(type, id, result, reusable) ==
    [type |-> type, id |-> id, result |-> result, reusable |-> reusable]
EventLookup(id) == LkEvent("Lookup", id, "None", FALSE)
EventWorkerReady(id, result, reusable) ==
    LkEvent("WorkerReady", id, result, reusable)
EventWorkerFailed(id) == LkEvent("WorkerFailed", id, "None", FALSE)
EventStop == LkEvent("Stop", 0, "None", FALSE)
EventReload == LkEvent("Reload", 0, "None", FALSE)

\* The results a worker reports: Some(true), Some(false), None.
WorkerResults == {"Some(true)", "Some(false)", "None"}

\* ---- LookupCache ----
NotCached == "miss"
CacheNew == [i \in LookupItems |-> NotCached]
cache_get(cache, item) == cache[item]
cache_insert(cache, item, result) ==
    CASE result = "Some(true)" -> [cache EXCEPT ![item] = "pos"]
      [] result = "Some(false)" -> [cache EXCEPT ![item] = "neg"]
      [] OTHER -> cache

\* ---- where a lookup is ----
\* new: not submitted; sent: its Event::Lookup is in the channel; queued: in
\* the pending queue; working: a worker has it; ready, failed: its worker has
\* sent WorkerReady or WorkerFailed and run has not taken the event yet;
\* done: nothing of it is left.
\* A worker is known by the lookup it has: it runs from the moment it is
\* spawned or given the lookup until run has taken the event that ends it.
WithWorker == {"working", "ready", "failed"}
Workers == {l \in LookupIds : lk_status[l] \in WithWorker}

\* The answers the caller of LookupChannel::lookup gets.
Pending == "pending"
Answers == {"cached", "worker", "None"}

\* ---- RemoteHost::run ----

\* Mutation: a worker is spawned when the count has reached the maximum.
SlotFreeAtMax(active_lookups, max_concurrent) ==
    active_lookups <= max_concurrent

\* active_lookups < max_concurrent
SlotFree(active_lookups, max_concurrent) == active_lookups < max_concurrent

\* while let Some(queued_lookup) = queue.pop_front(): the queued lookups
\* answered from the cache, the first one that is not (0 if none), and what
\* is left of the queue.
RECURSIVE PopQueue(_, _, _)
PopQueue(queue, cache, answered) ==
    IF queue = <<>>
        THEN [answered |-> answered, lookup |-> 0, queue |-> <<>>]
    ELSE IF cache_get(cache, ItemOf(Head(queue))) # NotCached
        THEN PopQueue(Tail(queue), cache, answered \cup {Head(queue)})
    ELSE [answered |-> answered, lookup |-> Head(queue), queue |-> Tail(queue)]

LkInit ==
    /\ lk_max \in 0..MaxConcurrent
    /\ lk_chan = <<>>
    /\ lk_status = [l \in LookupIds |-> "new"]
    /\ lk_answer = [l \in LookupIds |-> Pending]
    /\ lk_active = 0
    /\ lk_cache = CacheNew
    /\ lk_queue = <<>>
    /\ lk_stopped = FALSE

\* No remote host.
LkIdle ==
    /\ lk_max = 0
    /\ lk_chan = <<>>
    /\ lk_status = [l \in LookupIds |-> "done"]
    /\ lk_answer = [l \in LookupIds |-> "None"]
    /\ lk_active = 0
    /\ lk_cache = CacheNew
    /\ lk_queue = <<>>
    /\ lk_stopped = TRUE

\* LookupChannel::lookup: the event is sent and the answer awaited; when the
\* channel is closed the answer is None.
LookupChannelLookup(l) ==
    /\ lk_status[l] = "new"
    /\ IF lk_stopped
       THEN /\ lk_status' = [lk_status EXCEPT ![l] = "done"]
            /\ lk_answer' = [lk_answer EXCEPT ![l] = "None"]
            /\ UNCHANGED lk_chan
       ELSE /\ lk_chan' = Append(lk_chan, EventLookup(l))
            /\ lk_status' = [lk_status EXCEPT ![l] = "sent"]
            /\ UNCHANGED lk_answer
    /\ UNCHANGED <<lk_max, lk_active, lk_cache, lk_queue, lk_stopped>>
    /\ UNCHANGED notLk

\* Event::Lookup
RunLookup(e) ==
    LET l == e.id
    IN  /\ lk_chan' = Tail(lk_chan)
        /\ IF cache_get(lk_cache, ItemOf(l)) # NotCached
           THEN /\ lk_answer' = [lk_answer EXCEPT ![l] = "cached"]
                /\ lk_status' = [lk_status EXCEPT ![l] = "done"]
                /\ UNCHANGED <<lk_active, lk_queue>>
           ELSE IF SlotFree(lk_active, lk_max)
           THEN /\ lk_active' = lk_active + 1
                /\ lk_status' = [lk_status EXCEPT ![l] = "working"]
                /\ UNCHANGED <<lk_answer, lk_queue>>
           ELSE /\ lk_queue' = Append(lk_queue, l)
                /\ lk_status' = [lk_status EXCEPT ![l] = "queued"]
                /\ UNCHANGED <<lk_answer, lk_active>>
        /\ UNCHANGED <<lk_max, lk_cache, lk_stopped>>

\* Mutation: the worker that ends with nothing queued stays counted.
Released(active_lookups) == active_lookups

\* active_lookups -= 1
Decremented(active_lookups) == active_lookups - 1

\* Event::WorkerReady: the result is cached, the queued lookups the cache
\* answers are answered, and the first one it does not answer is given to
\* the worker that waits for it (next_lookup) or to a new worker.
RunWorkerReady(e) ==
    LET cache == cache_insert(lk_cache, ItemOf(e.id), e.result)
        p == PopQueue(lk_queue, cache, {})
    IN  /\ lk_chan' = Tail(lk_chan)
        /\ lk_cache' = cache
        /\ lk_queue' = p.queue
        /\ lk_answer' = [l \in LookupIds |->
                            IF l \in p.answered THEN "cached" ELSE lk_answer[l]]
        /\ lk_status' = [l \in LookupIds |->
                            IF l \in p.answered \/ l = e.id THEN "done"
                            ELSE IF l = p.lookup THEN "working"
                            ELSE lk_status[l]]
        /\ IF e.reusable
           THEN lk_active' = IF p.lookup = 0 THEN Decremented(lk_active)
                             ELSE lk_active
           ELSE IF p.lookup # 0 THEN lk_active' = lk_active
           ELSE lk_active' = Decremented(lk_active)
        /\ UNCHANGED <<lk_max, lk_stopped>>

\* Event::WorkerFailed
RunWorkerFailed(e) ==
    /\ lk_chan' = Tail(lk_chan)
    /\ IF lk_queue # <<>>
       THEN /\ lk_queue' = Tail(lk_queue)
            /\ lk_status' = [lk_status EXCEPT ![e.id] = "done",
                                              ![Head(lk_queue)] = "working"]
            /\ UNCHANGED lk_active
       ELSE /\ lk_active' = Decremented(lk_active)
            /\ lk_status' = [lk_status EXCEPT ![e.id] = "done"]
            /\ UNCHANGED lk_queue
    /\ UNCHANGED <<lk_max, lk_answer, lk_cache, lk_stopped>>

\* Event::Stop: the queue is cleared and the loop left; the receiver is
\* dropped with the events still in the channel.  A lookup dropped with its
\* reply channel is answered None.
RunStop(e) ==
    LET dropped == {l \in LookupIds : lk_status[l] \in {"queued", "sent"}}
        reported == {l \in LookupIds : lk_status[l] \in {"ready", "failed"}}
    IN  /\ lk_chan' = <<>>
        /\ lk_queue' = <<>>
        /\ lk_stopped' = TRUE
        /\ lk_answer' = [l \in LookupIds |->
                            IF l \in dropped THEN "None" ELSE lk_answer[l]]
        /\ lk_status' = [l \in LookupIds |->
                            IF l \in dropped \cup reported THEN "done"
                            ELSE lk_status[l]]
        /\ UNCHANGED <<lk_max, lk_active, lk_cache>>

\* Event::Reload
RunReload(e) ==
    /\ lk_chan' = Tail(lk_chan)
    /\ lk_cache' = CacheNew
    /\ UNCHANGED <<lk_max, lk_status, lk_answer, lk_active, lk_queue,
                   lk_stopped>>

\* while let Some(event) = rx.recv().await
Run ==
    /\ ~lk_stopped
    /\ lk_chan # <<>>
    /\ LET e == Head(lk_chan)
       IN  CASE e.type = "Lookup" -> RunLookup(e)
             [] e.type = "WorkerReady" -> RunWorkerReady(e)
             [] e.type = "WorkerFailed" -> RunWorkerFailed(e)
             [] e.type = "Stop" -> RunStop(e)
             [] OTHER -> RunReload(e)
    /\ UNCHANGED notLk

\* A worker ends a lookup: it answers the caller and sends WorkerReady, with
\* a next_lookup channel to wait on when its connection can be used again.
\* After Stop nobody receives the event and the worker ends.
WorkerReports(l, result, reusable) ==
    /\ lk_status[l] = "working"
    /\ lk_answer' = [lk_answer EXCEPT ![l] = "worker"]
    /\ IF lk_stopped
       THEN /\ lk_status' = [lk_status EXCEPT ![l] = "done"]
            /\ UNCHANGED lk_chan
       ELSE /\ lk_status' = [lk_status EXCEPT ![l] = "ready"]
            /\ lk_chan' = Append(lk_chan, EventWorkerReady(l, result, reusable))
    /\ UNCHANGED <<lk_max, lk_active, lk_cache, lk_queue, lk_stopped>>
    /\ UNCHANGED notLk

\* A worker fails: the lookup is dropped, its caller gets None, and
\* WorkerFailed is sent.
WorkerFails(l) ==
    /\ lk_status[l] = "working"
    /\ lk_answer' = [lk_answer EXCEPT ![l] = "None"]
    /\ IF lk_stopped
       THEN /\ lk_status' = [lk_status EXCEPT ![l] = "done"]
            /\ UNCHANGED lk_chan
       ELSE /\ lk_status' = [lk_status EXCEPT ![l] = "failed"]
            /\ lk_chan' = Append(lk_chan, EventWorkerFailed(l))
    /\ UNCHANGED <<lk_max, lk_active, lk_cache, lk_queue, lk_stopped>>
    /\ UNCHANGED notLk

\* The configuration is reloaded, or the server shuts down.
SendReload ==
    /\ ~lk_stopped
    /\ \A i \in 1..Len(lk_chan) : lk_chan[i].type # "Reload"
    /\ lk_chan' = Append(lk_chan, EventReload)
    /\ UNCHANGED <<lk_max, lk_status, lk_answer, lk_active, lk_cache,
                   lk_queue, lk_stopped>>
    /\ UNCHANGED notLk

SendStop ==
    /\ ~lk_stopped
    /\ \A i \in 1..Len(lk_chan) : lk_chan[i].type # "Stop"
    /\ lk_chan' = Append(lk_chan, EventStop)
    /\ UNCHANGED <<lk_max, lk_status, lk_answer, lk_active, lk_cache,
                   lk_queue, lk_stopped>>
    /\ UNCHANGED notLk

\* An entry of the cache outlives its time to live.
CacheExpires(item) ==
    /\ ~lk_stopped
    /\ lk_cache[item] # NotCached
    /\ lk_cache' = [lk_cache EXCEPT ![item] = NotCached]
    /\ UNCHANGED <<lk_max, lk_chan, lk_status, lk_answer, lk_active,
                   lk_queue, lk_stopped>>
    /\ UNCHANGED notLk

WorkerStep(l) ==
    \/ \E result \in WorkerResults, reusable \in BOOLEAN :
            WorkerReports(l, result, reusable)
    \/ WorkerFails(l)

NextLk ==
    \/ \E l \in LookupIds : LookupChannelLookup(l)
    \/ Run
    \/ \E l \in LookupIds : WorkerStep(l)
    \/ SendReload
    \/ SendStop
    \/ \E item \in LookupItems : CacheExpires(item)

\* ---- what the claims speak about ----

QueuedLookups == {lk_queue[i] : i \in 1..Len(lk_queue)}

\* C36: while run takes Lookup, WorkerReady, WorkerFailed and Reload events,
\* active_lookups is the number of workers running (a worker runs until run
\* has taken the event that ends it), it is never above max_concurrent and
\* never below zero, and a lookup is in the pending queue only while
\* active_lookups equals max_concurrent.
C36_ActiveLookupsCountWorkers ==
    ~lk_stopped =>
        /\ lk_active = Cardinality(Workers)
        /\ lk_active >= 0
        /\ lk_active <= lk_max
        /\ lk_queue # <<>> => lk_active = lk_max
        /\ QueuedLookups = {l \in LookupIds : lk_status[l] = "queued"}

\* C36 witness: with max_concurrent workers running a lookup is queued, and
\* one of the workers has reported and waits for its next lookup.
C36_Witness ==
    /\ ~lk_stopped
    /\ lk_max = MaxConcurrent
    /\ lk_active = lk_max
    /\ lk_queue # <<>>
    /\ \E i \in 1..Len(lk_chan) :
            lk_chan[i].type = "WorkerReady" /\ lk_chan[i].reusable

\* The last worker ended with nothing queued and the count is back at zero.
C36_WitnessReleased ==
    /\ ~lk_stopped
    /\ lk_max > 0
    /\ lk_active = 0
    /\ \E l \in LookupIds : lk_answer[l] = "worker" /\ lk_status[l] = "done"

LookupAnswered(l) == lk_answer[l] # Pending

\* C37 (as stated): every lookup submitted through LookupChannel::lookup
\* eventually completes, with a cached result, a worker result or None,
\* provided each spawned worker eventually reports WorkerReady or
\* WorkerFailed.
C37_EveryLookupCompletes ==
    \A l \in LookupIds : (lk_status[l] = "sent") ~> LookupAnswered(l)

\* C37 (amended): the same, for a remote host whose max_concurrent is at
\* least one; with max_concurrent = 0 no worker is ever spawned and a lookup
\* the cache does not answer waits in the queue until Stop.
C37_EveryLookupCompletesWithWorkers ==
    \A l \in LookupIds :
        (lk_max >= 1 /\ lk_status[l] = "sent") ~> LookupAnswered(l)

\* Every answer is one of the three, and a lookup that is done is answered.
C37_AnswersAreFinal ==
    \A l \in LookupIds :
        /\ lk_answer[l] \in Answers \cup {Pending}
        /\ lk_status[l] \in {"done", "ready", "failed"} => LookupAnswered(l)
        /\ lk_stopped => lk_status[l] \in {"new", "working", "done"}

\* C37 witness: a lookup that waited in the queue was started when a worker
\* finished and has its worker's result; another was answered from the cache.
C37_Witness ==
    /\ lk_max >= 1
    /\ \E l, k \in LookupIds :
        /\ lk_answer[l] = "worker" /\ lk_answer[k] = "cached"
        /\ l # k

\* Stop released a queued lookup with None.
C37_WitnessStop ==
    /\ lk_stopped
    /\ \E l \in LookupIds : lk_answer[l] = "None"

(***************************************************************************)
(*     Management HTTP requests: parse_request and the control channels    *)
(***************************************************************************)

\* The message in the queue and the report scheduled.
ManagedIds == {"m"}

\* ---- strings, as sequences of characters ----
LowerOf(ch) ==
    CASE ch = "A" -> "a" [] ch = "B" -> "b" [] ch = "D" -> "d"
      [] ch = "I" -> "i" [] ch = "S" -> "s" [] ch = "C" -> "c"
      [] OTHER -> ch
to_lowercase(s) == [i \in 1..Len(s) |-> LowerOf(s[i])]

RECURSIVE trim(_)
trim(s) ==
    IF s = <<>> THEN <<>>
    ELSE IF Head(s) = " " THEN trim(Tail(s))
    ELSE IF s[Len(s)] = " " THEN trim(SubSeq(s, 1, Len(s) - 1))
    ELSE s

\* str::split_once: None, or what is before and after the first delimiter.
NoSplit == [found |-> FALSE, left |-> <<>>, right |-> <<>>]
split_once(s, delimiter) ==
    IF \E i \in 1..Len(s) : s[i] = delimiter
    THEN LET i == CHOOSE k \in 1..Len(s) :
                    /\ s[k] = delimiter
                    /\ \A j \in 1..(k - 1) : s[j] # delimiter
         IN  [found |-> TRUE, left |-> SubSeq(s, 1, i - 1),
              right |-> SubSeq(s, i + 1, Len(s))]
    ELSE NoSplit

\* ---- the Authorization header ----
\* to_str: the value is visible ASCII; mechanism: the text before the first
\* space, if there is a space; payload: the text after it, with the bytes
\* it decodes to when it is base64 and whether those are UTF-8.
NoHeader == [present |-> FALSE]
Payload(base64, utf8, token) ==
    [base64 |-> base64, utf8 |-> utf8, token |-> token]
Header(to_str, mechanism, space, payload) ==
    [present |-> TRUE, to_str |-> to_str, mechanism |-> mechanism,
     space |-> space, payload |-> payload]

Basic == <<"B", "a", "s", "i", "c">>
BasicMixed == <<"b", "A", "s", "I", "C">>
Bearer == <<"B", "e", "a", "r", "e", "r">>
TokenGood == <<"a", "d", ":", "p">>
TokenUntidy == <<" ", "A", "d", " ", ":", "p">>
TokenWrong == <<"a", "d", ":", "x">>
TokenLonger == <<"a", "d", ":", "p", ":", "q">>
TokenNoColon == <<"a", "d", "p">>

HpHeaders ==
    { NoHeader,
      Header(FALSE, Basic, TRUE, Payload(TRUE, TRUE, TokenGood)),
      Header(TRUE, Basic, FALSE, Payload(TRUE, TRUE, TokenGood)),
      Header(TRUE, Bearer, TRUE, Payload(TRUE, TRUE, TokenGood)),
      Header(TRUE, Basic, TRUE, Payload(FALSE, TRUE, TokenGood)),
      Header(TRUE, Basic, TRUE, Payload(TRUE, FALSE, TokenGood)),
      Header(TRUE, Basic, TRUE, Payload(TRUE, TRUE, TokenNoColon)),
      Header(TRUE, Basic, TRUE, Payload(TRUE, TRUE, TokenGood)),
      Header(TRUE, BasicMixed, TRUE, Payload(TRUE, TRUE, TokenUntidy)),
      Header(TRUE, Basic, TRUE, Payload(TRUE, TRUE, TokenWrong)),
      Header(TRUE, Basic, TRUE, Payload(TRUE, TRUE, TokenLonger)) }

\* ---- the request ----
HpRoutes ==
    { <<"GET", "queue", "list">>, <<"GET", "queue", "cancel">>,
      <<"GET", "report", "cancel">>,
      <<"POST", "queue", "cancel">>, <<"GET", "queue", "purge">> }

HpRequest(header, route, query_ok, id) ==
    [header |-> header, method |-> route[1], path |-> <<route[2], route[3]>>,
     query_ok |-> query_ok, id |-> id]

\* Every route with a query that parses, and one with a query that does not.
HpRequests ==
    { HpRequest(h, r, TRUE, id) :
        h \in HpHeaders, r \in HpRoutes, id \in ManagedIds }
    \cup { HpRequest(h, <<"GET", "queue", "cancel">>, FALSE, id) :
                h \in HpHeaders, id \in ManagedIds }

\* ---- Lookup::lookup(Item::Authenticate(Credentials::Plain)) ----
\* Local: a list of "username:secret" entries. Sql: the password of the
\* account, if the query can be run. Remote: what the remote host answers.
LookupLocal == [kind |-> "Local", entries |-> {TokenGood}]
LookupSql(up) == [kind |-> "Sql", up |-> up, account |-> <<"a", "d">>, pwd |-> <<"p">>]
LookupRemote(answer) == [kind |-> "Remote", answer |-> answer]
RemoteAnswers == {"True", "False", "Values", "None"}
HpLookups ==
    {LookupLocal} \cup {LookupSql(up) : up \in BOOLEAN}
        \cup {LookupRemote(a) : a \in RemoteAnswers}

lookup_authenticate(lookup, username, secret) ==
    CASE lookup.kind = "Local" ->
            IF (username \o <<":">> \o secret) \in lookup.entries
            THEN "True" ELSE "False"
      [] lookup.kind = "Sql" ->
            IF ~lookup.up THEN "None"
            ELSE IF username = lookup.account /\ lookup.pwd = secret
            THEN "True" ELSE "False"
      [] OTHER -> lookup.answer

\* ---- parse_request ----
NoAuthCall == [made |-> FALSE]
Call(username, secret, result) ==
    [made |-> TRUE, username |-> username, secret |-> secret, result |-> result]

\* The credentials of the header: None unless the mechanism is Basic and
\* the payload decodes to "login:secret".
decode_credentials(header) ==
    IF ~header.present \/ ~header.to_str \/ ~header.space THEN NoSplit
    ELSE IF to_lowercase(header.mechanism) # to_lowercase(Basic) THEN NoSplit
    ELSE IF ~header.payload.base64 \/ ~header.payload.utf8 THEN NoSplit
    ELSE LET token == split_once(header.payload.token, ":")
         IN  IF token.found
             THEN [token EXCEPT !.left = to_lowercase(trim(token.left))]
             ELSE NoSplit

\* Mutation: only a rejection keeps the request out.
NotRejected(result) == result # "False"

\* Some(LookupResult::True) => is_authenticated = true
IsAuthenticated(result) == result = "True"

\* The lookup made for the request, if one is made.
authenticate(lookup, req) ==
    LET credentials == decode_credentials(req.header)
    IN  IF credentials.found
        THEN Call(credentials.left, credentials.right,
                  lookup_authenticate(lookup, credentials.left, credentials.right))
        ELSE NoAuthCall

\* match (req.method(), path.next(), path.next()): the request sent, on which
\* channel, or the status answered without sending one.
NoEvent == [channel |-> "none", request |-> "none", id |-> "none"]
ManageEvent(channel, kind, id) ==
    [channel |-> channel, request |-> kind, id |-> id]
route(req) ==
    IF req.method # "GET" THEN [status |-> 404, event |-> NoEvent]
    ELSE IF req.path[1] \in {"queue", "report"}
            /\ ( \/ req.path[2] \in {"list", "status", "cancel"}
                 \/ req.path = <<"queue", "retry">> )
        THEN IF req.query_ok
             THEN [status |-> 200,
                   event |-> ManageEvent(req.path[1], req.path[2], req.id)]
             ELSE [status |-> 400, event |-> NoEvent]
    ELSE [status |-> 404, event |-> NoEvent]

HpInit ==
    /\ hp_lookup \in HpLookups
    /\ hp_req = HpRequest(NoHeader, <<"GET", "queue", "list">>, TRUE, "m")
    /\ hp_call = NoAuthCall
    /\ hp_status = 0
    /\ hp_sent = NoEvent
    /\ hp_messages = ManagedIds
    /\ hp_reports = ManagedIds
    /\ hp_open = TRUE

\* No management listener.
HpIdle ==
    /\ hp_lookup = LookupLocal
    /\ hp_req = HpRequest(NoHeader, <<"GET", "queue", "list">>, TRUE, "m")
    /\ hp_call = NoAuthCall
    /\ hp_status = 0
    /\ hp_sent = NoEvent
    /\ hp_messages = {}
    /\ hp_reports = {}
    /\ hp_open = FALSE

\* What the manager that takes the event does to its state: cancel removes
\* the message or the report; list, status and retry remove nothing.
Managed(ids, event, channel) ==
    IF event.channel = channel /\ event.request = "cancel"
    THEN ids \ {event.id} ELSE ids

\* Core::send_queue_event / Core::send_report_event: 200 when the event is
\* sent and answered, 500 when the channel is closed or the answer is
\* dropped.
SendEvent(event, replied) ==
    IF ~hp_open
    THEN /\ hp_status' = 500
         /\ hp_sent' = NoEvent
         /\ UNCHANGED <<hp_messages, hp_reports>>
    ELSE /\ hp_status' = IF replied THEN 200 ELSE 500
         /\ hp_sent' = event
         /\ hp_messages' = Managed(hp_messages, event, "queue")
         /\ hp_reports' = Managed(hp_reports, event, "report")

ParseRequest(req, replied) ==
    /\ LET call == authenticate(hp_lookup, req)
           routed == route(req)
       IN  /\ hp_req' = req
           /\ hp_call' = call
           /\ IF ~(call.made /\ IsAuthenticated(call.result))
              THEN /\ hp_status' = 401
                   /\ hp_sent' = NoEvent
                   /\ UNCHANGED <<hp_messages, hp_reports>>
              ELSE IF routed.event = NoEvent
              THEN /\ hp_status' = routed.status
                   /\ hp_sent' = NoEvent
                   /\ UNCHANGED <<hp_messages, hp_reports>>
              ELSE SendEvent(routed.event, replied)
    /\ UNCHANGED <<hp_lookup, hp_open>>
    /\ UNCHANGED notHp

\* The server shuts down: the managers drop their receivers.
HpShutdown ==
    /\ hp_open
    /\ hp_open' = FALSE
    /\ UNCHANGED <<hp_lookup, hp_req, hp_call, hp_status, hp_sent,
                   hp_messages, hp_reports>>
    /\ UNCHANGED notHp

NextHp ==
    \/ \E req \in HpRequests, replied \in BOOLEAN : ParseRequest(req, replied)
    \/ HpShutdown

\* ---- what the claim speaks about ----

\* The lookup was asked about the credentials of the request and said True.
Verified ==
    /\ hp_call.made
    /\ hp_call.result = "True"
    /\ hp_req.header.present
    /\ hp_req.header.payload.base64
    /\ LET token == split_once(hp_req.header.payload.token, ":")
       IN  /\ token.found
           /\ hp_call.username = to_lowercase(trim(token.left))
           /\ hp_call.secret = token.right

\* C38: a request sends a QueueRequest or ReportRequest only when the
\* management lookup said True to its Basic credentials; any other request
\* is answered 401, sends nothing and leaves the queue and the reports as
\* they were. (The steps that leave hp_open alone are the requests.)
C38_SentOnlyWhenVerified ==
    [][ hp_open' = hp_open =>
        /\ hp_sent' # NoEvent => Verified'
        /\ ~Verified' =>
            /\ hp_status' = 401
            /\ hp_sent' = NoEvent
            /\ UNCHANGED <<hp_messages, hp_reports>>
        /\ hp_status' = 401 => UNCHANGED <<hp_messages, hp_reports>> ]_vars

\* The same seen in a state: nothing was sent by a request answered 401, and
\* the request that sent something was verified; with a local list the
\* credentials are an entry of it.
C38_VerifiedIsListed ==
    /\ hp_sent # NoEvent => Verified
    /\ hp_status = 401 <=> (hp_status # 0 /\ ~Verified)
    /\ Verified /\ hp_lookup.kind = "Local" =>
            (hp_call.username \o <<":">> \o hp_call.secret) \in hp_lookup.entries

\* C38 witness: a verified request cancelled a message, and so did one whose
\* login had to be trimmed and lower-cased.
C38_Witness ==
    /\ Verified
    /\ hp_sent = ManageEvent("queue", "cancel", "m")
    /\ hp_status = 200
    /\ hp_messages = {}
    /\ hp_req.header.payload.token = TokenUntidy

\* Requests answered 401: no header, and a temporary failure of the lookup.
C38_WitnessMissing ==
    /\ hp_status = 401 /\ ~hp_req.header.present
    /\ hp_req.path = <<"queue", "cancel">> /\ hp_messages = ManagedIds

C38_WitnessTemporary ==
    /\ hp_status = 401 /\ hp_call.made /\ hp_call.result = "None"
    /\ hp_req.path = <<"report", "cancel">> /\ hp_reports = ManagedIds

C38_WitnessRejected ==
    /\ hp_status = 401 /\ hp_call.made /\ hp_call.result = "False"
    /\ hp_call.secret = <<"p", ":", "q">>

(***************************************************************************)
(*          MTA-STS policies: Core::lookup_mta_sts_policy                  *)
(***************************************************************************)

\* ---- bounds ----
MaxRecordId == 2        \* ids the domain's TXT record takes
MaxCallers == 2         \* delivery attempts looking the policy up at once

RecordIds == 1..MaxRecordId
Callers == 1..MaxCallers

\* ---- values ----
NoPolicy == [some |-> FALSE, id |-> 0]
\* A policy, with the id it was parsed with.
StsPolicy(id) == [some |-> TRUE, id |-> id]

TxtFailed == 0
NoReturn == [kind |-> "none", policy |-> NoPolicy]
ReturnOk(policy) == [kind |-> "Ok", policy |-> policy]
ReturnErr(kind) == [kind |-> kind, policy |-> NoPolicy]

\* Policy::parse(text, record.id): the policy carries the id it is given.
policy_parse(id) == StsPolicy(id)

\* Mutation: any cached policy is returned.
AnyCached(value, record_id) == value.some

\* value.id == record.id
SameId(value, record_id) == value.id = record_id

StsInit ==
    /\ sts_record \in RecordIds
    /\ sts_cache = NoPolicy
    /\ sts_pc = [p \in Callers |-> "idle"]
    /\ sts_rec = [p \in Callers |-> TxtFailed]
    /\ sts_fetched = [p \in Callers |-> FALSE]
    /\ sts_ret = [p \in Callers |-> NoReturn]

\* No delivery attempt looks a policy up.
StsIdle ==
    /\ sts_record = 1
    /\ sts_cache = NoPolicy
    /\ sts_pc = [p \in Callers |-> "off"]
    /\ sts_rec = [p \in Callers |-> TxtFailed]
    /\ sts_fetched = [p \in Callers |-> FALSE]
    /\ sts_ret = [p \in Callers |-> NoReturn]

\* The call begins: txt_lookup, and on failure the cached policy or the error.
StsTxtLookup(p, ok) ==
    /\ sts_pc[p] = "idle"
    /\ sts_fetched' = [sts_fetched EXCEPT ![p] = FALSE]
    /\ IF ok
       THEN /\ sts_rec' = [sts_rec EXCEPT ![p] = sts_record]
            /\ sts_pc' = [sts_pc EXCEPT ![p] = "txt"]
                    /\ sts_ret' = [sts_ret EXCEPT ![p] = NoReturn]
            /\ UNCHANGED sts_cache
       ELSE /\ sts_rec' = [sts_rec EXCEPT ![p] = TxtFailed]
            /\ sts_pc' = [sts_pc EXCEPT ![p] = "done"]
                    /\ sts_ret' = [sts_ret EXCEPT ![p] =
                    IF sts_cache.some THEN ReturnOk(sts_cache)
                    ELSE ReturnErr("Dns")]
            /\ UNCHANGED sts_cache
    /\ UNCHANGED <<sts_record>>
    /\ UNCHANGED notSts

\* Check if the policy has been cached; if not, the policy is requested.
StsCheckCache(p) ==
    /\ sts_pc[p] = "txt"
    /\ IF sts_cache.some /\ SameId(sts_cache, sts_rec[p])
       THEN /\ sts_ret' = [sts_ret EXCEPT ![p] = ReturnOk(sts_cache)]
            /\ sts_pc' = [sts_pc EXCEPT ![p] = "done"]
       ELSE /\ sts_pc' = [sts_pc EXCEPT ![p] = "fetch"]
            /\ UNCHANGED sts_ret
    /\ UNCHANGED <<sts_record, sts_cache, sts_rec, sts_fetched>>
    /\ UNCHANGED notSts

\* The answer to the HTTPS request: the policy file, parsed and cached, or
\* an error.
StsFetch(p, outcome) ==
    /\ sts_pc[p] = "fetch"
    /\ sts_fetched' = [sts_fetched EXCEPT ![p] = TRUE]
    /\ sts_pc' = [sts_pc EXCEPT ![p] = "done"]
    /\ IF outcome = "Ok"
       THEN LET policy == policy_parse(sts_rec[p])
            IN  /\ sts_cache' = policy
                /\ sts_ret' = [sts_ret EXCEPT ![p] = ReturnOk(policy)]
       ELSE /\ sts_ret' = [sts_ret EXCEPT ![p] = ReturnErr(outcome)]
            /\ UNCHANGED sts_cache
    /\ UNCHANGED <<sts_record, sts_rec>>
    /\ UNCHANGED notSts

\* The caller goes on, and may look the policy up again.
StsAgain(p) ==
    /\ sts_pc[p] = "done"
    /\ sts_pc' = [sts_pc EXCEPT ![p] = "idle"]
    /\ sts_rec' = [sts_rec EXCEPT ![p] = TxtFailed]
    /\ sts_fetched' = [sts_fetched EXCEPT ![p] = FALSE]
    /\ sts_ret' = [sts_ret EXCEPT ![p] = NoReturn]
    /\ UNCHANGED <<sts_record, sts_cache>>
    /\ UNCHANGED notSts

\* The domain publishes a new policy under a new id.
StsPublish(id) ==
    /\ \E p \in Callers : sts_pc[p] # "off"
    /\ id # sts_record
    /\ sts_record' = id
    /\ UNCHANGED <<sts_cache, sts_pc, sts_rec, sts_fetched, sts_ret>>
    /\ UNCHANGED notSts

\* The cached policy outlives valid_until.
StsExpires ==
    /\ sts_cache.some
    /\ sts_cache' = NoPolicy
    /\ UNCHANGED <<sts_record, sts_pc, sts_rec, sts_fetched, sts_ret>>
    /\ UNCHANGED notSts

NextSts ==
    \/ \E p \in Callers, ok \in BOOLEAN : StsTxtLookup(p, ok)
    \/ \E p \in Callers : StsCheckCache(p)
    \/ \E p \in Callers, outcome \in {"Ok", "Http", "InvalidPolicy"} :
            StsFetch(p, outcome)
    \/ \E p \in Callers : StsAgain(p)
    \/ \E id \in RecordIds : StsPublish(id)
    \/ StsExpires

\* ---- what the claim speaks about ----

\* C39: a call that returns does so in one of three ways. With a TXT record:
\* the policy returned has the record's id, and it was fetched only when
\* the cache had nothing or a policy of another id. Without one (the TXT
\* lookup failed): the cached policy is returned if there is one and an
\* error otherwise, nothing is fetched and the cache is left as it was.
C39_PolicyOfTheRecord ==
    [][ \A p \in Callers :
          /\ sts_pc'[p] = "fetch" /\ sts_pc[p] # "fetch" =>
                ~sts_cache.some \/ sts_cache.id # sts_rec[p]
          /\ sts_pc'[p] = "done" /\ sts_pc[p] # "done" =>
                IF sts_rec'[p] # TxtFailed
                THEN /\ sts_ret'[p].kind = "Ok" =>
                            sts_ret'[p].policy.id = sts_rec'[p]
                     /\ ~sts_fetched'[p] =>
                            /\ sts_ret'[p] = ReturnOk(sts_cache)
                            /\ sts_cache.some
                            /\ sts_cache' = sts_cache
                ELSE /\ ~sts_fetched'[p]
                     /\ sts_cache' = sts_cache
                     /\ sts_ret'[p] = IF sts_cache.some
                                      THEN ReturnOk(sts_cache)
                                      ELSE ReturnErr("Dns") ]_vars

\* C39 witness: the policy was fetched and returned, and it is the one
\* cached now.
C39_Witness ==
    \E p \in Callers :
        /\ sts_pc[p] = "done"
        /\ sts_fetched[p]
        /\ sts_ret[p] = ReturnOk(sts_cache)
        /\ sts_cache.id = sts_rec[p]

\* The TXT lookup failed and the cached policy was returned, though the
\* domain has moved to another id.
C39_WitnessDnsFailure ==
    \E p \in Callers :
        /\ sts_pc[p] = "done"
        /\ sts_rec[p] = TxtFailed
        /\ sts_ret[p].kind = "Ok"
        /\ sts_ret[p].policy.id # sts_record

\* The cached policy had the record's id and nothing was fetched.
C39_WitnessCached ==
    \E p \in Callers :
        /\ sts_pc[p] = "done"
        /\ sts_rec[p] # TxtFailed
        /\ ~sts_fetched[p]
        /\ sts_ret[p].kind = "Ok"

(***************************************************************************)
(*                            Specifications                               *)
(***************************************************************************)

InitDane == DaneInit /\ ThrIdle /\ SessIdle /\ QueueIdle /\ DomIdle /\ HeapIdle /\ QuotaUnused /\ MxIdle /\ TsIdle /\ RpIdle /\ MgIdle /\ DuIdle /\ LkIdle /\ HpIdle /\ StsIdle

SpecDane == InitDane /\ [][NextDane]_vars

InitThrottle == ThrInit /\ DaneIdle /\ SessIdle /\ QueueIdle /\ DomIdle /\ HeapIdle /\ QuotaUnused /\ MxIdle /\ TsIdle /\ RpIdle /\ MgIdle /\ DuIdle /\ LkIdle /\ HpIdle /\ StsIdle

SpecThrottle == InitThrottle /\ [][NextThrottle]_vars

Init == SessInit /\ DaneIdle /\ ThrIdle /\ QueueIdle /\ DomIdle /\ HeapIdle /\ QuotaUnused /\ MxIdle /\ TsIdle /\ RpIdle /\ MgIdle /\ DuIdle /\ LkIdle /\ HpIdle /\ StsIdle

Next == NextSession

Spec == Init /\ [][Next]_vars

InitQueue == QueueInit /\ DaneIdle /\ ThrIdle /\ SessIdle /\ DomIdle /\ HeapIdle /\ QuotaUnused /\ MxIdle /\ TsIdle /\ RpIdle /\ MgIdle /\ DuIdle /\ LkIdle /\ HpIdle /\ StsIdle

SpecQueue == InitQueue /\ [][NextQueue]_vars

SpecQueueFair == SpecQueue /\ QueueFairness

InitDomain == DomInit /\ DaneIdle /\ ThrIdle /\ SessIdle /\ QueueIdle /\ HeapIdle /\ QuotaUnused /\ MxIdle /\ TsIdle /\ RpIdle /\ MgIdle /\ DuIdle /\ LkIdle /\ HpIdle /\ StsIdle

SpecDomain == InitDomain /\ [][NextDomain]_vars

InitHeap == HeapInit /\ DaneIdle /\ ThrIdle /\ SessIdle /\ QueueIdle /\ DomIdle /\ QuotaUnused /\ MxIdle /\ TsIdle /\ RpIdle /\ MgIdle /\ DuIdle /\ LkIdle /\ HpIdle /\ StsIdle

SpecHeap == InitHeap /\ [][NextHeap]_vars

InitQuota == QuotaInit /\ DaneIdle /\ ThrIdle /\ SessIdle /\ QueueIdle /\ DomIdle /\ HeapIdle /\ MxIdle /\ TsIdle /\ RpIdle /\ MgIdle /\ DuIdle /\ LkIdle /\ HpIdle /\ StsIdle

SpecQuota == InitQuota /\ [][NextQuota]_vars

InitMx == MxInit /\ DaneIdle /\ ThrIdle /\ SessIdle /\ QueueIdle /\ DomIdle /\ HeapIdle /\ QuotaUnused /\ TsIdle /\ RpIdle /\ MgIdle /\ DuIdle /\ LkIdle /\ HpIdle /\ StsIdle

SpecMx == InitMx /\ [][NextMx]_vars


InitTs == TsInit /\ DaneIdle /\ ThrIdle /\ SessIdle /\ QueueIdle /\ DomIdle /\ HeapIdle /\ QuotaUnused /\ MxIdle /\ RpIdle /\ MgIdle /\ DuIdle /\ LkIdle /\ HpIdle /\ StsIdle

SpecTs == InitTs /\ [][NextTs]_vars


InitRp == RpInit /\ DaneIdle /\ ThrIdle /\ SessIdle /\ QueueIdle /\ DomIdle /\ HeapIdle /\ QuotaUnused /\ MxIdle /\ TsIdle /\ MgIdle /\ DuIdle /\ LkIdle /\ HpIdle /\ StsIdle

SpecRp == InitRp /\ [][NextRp]_vars


InitMg == MgInit /\ DaneIdle /\ ThrIdle /\ SessIdle /\ QueueIdle /\ DomIdle /\ HeapIdle /\ QuotaUnused /\ MxIdle /\ TsIdle /\ RpIdle /\ DuIdle /\ LkIdle /\ HpIdle /\ StsIdle

SpecMg == InitMg /\ [][NextMg]_vars


InitDu == DuInit /\ DaneIdle /\ ThrIdle /\ SessIdle /\ QueueIdle /\ DomIdle /\ HeapIdle /\ QuotaUnused /\ MxIdle /\ TsIdle /\ RpIdle /\ MgIdle /\ LkIdle /\ HpIdle /\ StsIdle

SpecDu == InitDu /\ [][NextDu]_vars


InitLk == LkInit /\ DaneIdle /\ ThrIdle /\ SessIdle /\ QueueIdle /\ DomIdle /\ HeapIdle /\ QuotaUnused /\ MxIdle /\ TsIdle /\ RpIdle /\ MgIdle /\ DuIdle /\ HpIdle /\ StsIdle

SpecLk == InitLk /\ [][NextLk]_vars

\* Events in the channel are taken, and every worker ends its lookup.
SpecLkFair == SpecLk /\ WF_vars(Run) /\ \A l \in LookupIds : WF_vars(WorkerStep(l))

InitHp == HpInit /\ DaneIdle /\ ThrIdle /\ SessIdle /\ QueueIdle /\ DomIdle /\ HeapIdle /\ QuotaUnused /\ MxIdle /\ TsIdle /\ RpIdle /\ MgIdle /\ DuIdle /\ LkIdle /\ StsIdle
SpecHp == InitHp /\ [][NextHp]_vars

InitSts == StsInit /\ DaneIdle /\ ThrIdle /\ SessIdle /\ QueueIdle /\ DomIdle /\ HeapIdle /\ QuotaUnused /\ MxIdle /\ TsIdle /\ RpIdle /\ MgIdle /\ DuIdle /\ LkIdle /\ HpIdle
SpecSts == InitSts /\ [][NextSts]_vars

=============================================================================
